---- MODULE Spec2Model ----
(***************************************************************************)
(* Request-admission and abuse-control layer of Nexus.                     *)
(*                                                                         *)
(*   backend  adk-nexus/src/securitymiddleware.ts  (Express guards)        *)
(*   edge     frontend middleware (Next.js interceptor, rateLimitMap)      *)
(*                                                                         *)
(* Strings that the code inspects character by character (header values,   *)
(* user-agents, content types) are sequences of one-character strings.     *)
(* A JavaScript Map is a sequence of entries in insertion order: set() on  *)
(* a key that is present keeps its position, set() on a new key appends,   *)
(* delete() removes, keys()/entries() iterate in sequence order.           *)
(* Time is Date.now() in milliseconds.                                     *)
(***************************************************************************)
EXTENDS Integers, Sequences, FiniteSets, TLC

VARIABLES
    now,             \* Date.now()
    ticks,           \* number of clock advances taken (bounded by MaxTicks)
    sent,            \* number of requests received (bounded by MaxRequests)
    env,             \* process.env: NODE_ENV, TURNSTILE_SECRET_KEY, BACKEND_ACCESS_KEY, EMERGENCY_SHUTDOWN
    rateLimitStore,  \* backend Map<string, RateLimitEntry>
    activeSessions,  \* backend Map<string, boolean>
    reqs,            \* backend requests in flight, one record per connection slot
    last,            \* the most recent backend step and what it decided
    seen,            \* per identity key: request history of the backend limiter (observer)
    leaked,          \* session tokens whose holder's connection closed without 'finish' (observer)
    released,        \* session tokens whose holder's response emitted 'finish' (observer)
    rateLimitMap,    \* edge Map<string, {count, resetTime}>
    edgeLast,        \* the most recent edge response
    edgeSeen,        \* per identity key: request history of the edge limiter (observer)
    gate,            \* the last x-api-key checked by the credential gates, and their answers
    call             \* the last call of a function of the guards on its own, and its results

vars == <<now, ticks, sent, env, rateLimitStore, activeSessions, reqs, last, seen, leaked,
          released, rateLimitMap, edgeLast, edgeSeen, gate, call>>

backendVars == <<rateLimitStore, activeSessions, reqs, last, seen, leaked, released>>
edgeVars == <<rateLimitMap, edgeLast, edgeSeen>>

----------------------------------------------------------------------------
(* Bounds of the model *)

MaxTicks == 2        \* clock advances per behaviour
MaxRequests == 7     \* requests received per behaviour
MaxSolo == 6         \* requests received per behaviour of one limiter alone
MaxPipeline == 4     \* requests received per behaviour of the pipeline
NumSlots == 2        \* backend connections open at the same time

(* Capacities and the edge limit, scaled down so that the overflow and the  *)
(* over-limit branches are reachable with three identity keys and three     *)
(* session tokens: 1000, 500, 30, 1000 and 100 in the source.               *)

MAX_RATE_LIMIT_ENTRIES == 2
MAX_ACTIVE_SESSIONS == 2
STRICT_RATE_LIMIT == 2
EDGE_CLEANUP_THRESHOLD == 2
RATE_LIMIT_MAX == 2

(* Program constants *)

RATE_LIMIT_WINDOW_MS == 60000
RATE_LIMIT_MAX_REQUESTS == 3
MS_PER_SECOND == 1000
MIN_UA_LENGTH == 10
RATE_LIMIT_WINDOW == 60000

----------------------------------------------------------------------------
(* Strings as character sequences *)

UpperCase == <<"A","B","C","D","E","F","G","H","I","J","K","L","M",
               "N","O","P","Q","R","S","T","U","V","W","X","Y","Z">>
LowerCase == <<"a","b","c","d","e","f","g","h","i","j","k","l","m",
               "n","o","p","q","r","s","t","u","v","w","x","y","z">>

lowerOf == [c \in {UpperCase[j] : j \in 1..Len(UpperCase)} |->
              LowerCase[CHOOSE j \in 1..Len(UpperCase) : UpperCase[j] = c]]

\* String.prototype.toLowerCase
toLowerCase(s) ==
    [i \in 1..Len(s) |-> IF s[i] \in DOMAIN lowerOf THEN lowerOf[s[i]] ELSE s[i]]

\* String.prototype.includes
includes(s, pat) ==
    \E i \in 1..(Len(s) - Len(pat) + 1) : SubSeq(s, i, i + Len(pat) - 1) = pat

\* s.split(",")[0]: the text before the first comma
RECURSIVE firstOfSplit(_)
firstOfSplit(s) ==
    IF s = <<>> \/ Head(s) = "," THEN <<>>
    ELSE <<Head(s)>> \o firstOfSplit(Tail(s))

RECURSIVE trimStart(_)
trimStart(s) == IF s # <<>> /\ Head(s) = " " THEN trimStart(Tail(s)) ELSE s

RECURSIVE trimEnd(_)
trimEnd(s) ==
    IF s # <<>> /\ s[Len(s)] = " " THEN trimEnd(SubSeq(s, 1, Len(s) - 1)) ELSE s

\* String.prototype.trim
trim(s) == trimEnd(trimStart(s))

\* Math.ceil(a / b) for b > 0
ceilDiv(a, b) == IF a >= 0 THEN (a + b - 1) \div b ELSE -((-a) \div b)

\* String(n) for an integer n: its decimal digits, "-" first when n < 0
decimalDigits == <<"0", "1", "2", "3", "4", "5", "6", "7", "8", "9">>
RECURSIVE String(_)
String(n) ==
    IF n < 0 THEN <<"-">> \o String(-n)
    ELSE IF n < 10 THEN <<decimalDigits[n + 1]>>
    ELSE Append(String(n \div 10), decimalDigits[(n % 10) + 1])

----------------------------------------------------------------------------
(* Map<K, V> as a sequence of entries [key, ...] in insertion order *)

mapHas(m, k) == \E i \in 1..Len(m) : m[i].key = k
mapIndex(m, k) == CHOOSE i \in 1..Len(m) : m[i].key = k
mapGet(m, k) == m[mapIndex(m, k)]
mapSet(m, e) ==
    IF mapHas(m, e.key) THEN [m EXCEPT ![mapIndex(m, e.key)] = e] ELSE Append(m, e)
mapDelete(m, k) == SelectSeq(m, LAMBDA e : e.key # k)
mapKeys(m) == [i \in 1..Len(m) |-> m[i].key]
mapKeySet(m) == {m[i].key : i \in 1..Len(m)}

----------------------------------------------------------------------------
(* Request inputs *)

S_unknown == <<"u","n","k","n","o","w","n">>
S_health == "/health"
S_json == <<"a","p","p","l","i","c","a","t","i","o","n","/","j","s","o","n">>

IP_a == <<"1">>
IP_b == <<"2">>
IP_c == <<"3">>

\* headers / transport address relevant to the identity resolver; <<>> is an
\* absent (or empty, equally falsy) value
H_a == [xff |-> <<"1", ",", " ", "9">>, realIp |-> <<"2">>, ip |-> <<"3">>, remoteAddress |-> <<"3">>]
H_b == [xff |-> <<>>, realIp |-> <<"2">>, ip |-> <<"3">>, remoteAddress |-> <<"3">>]
H_c == [xff |-> <<>>, realIp |-> <<>>, ip |-> <<>>, remoteAddress |-> <<"3">>]

UA_browser == <<"M","o","z","i","l","l","a","/","5",".","0">>
UA_curl == <<"c","u","r","l","/","7",".","6","8",".","0">>
UA_none == <<>>

NoSession == ""
Sessions == {"s1", "s2", "s3"}

Slots == 1..NumSlots

----------------------------------------------------------------------------
(* backend: securitymiddleware.ts *)

\* getClientIP(req)
getClientIP(h) ==
    IF h.xff # <<>> THEN trim(firstOfSplit(h.xff))
    ELSE IF h.realIp # <<>> THEN h.realIp
    ELSE IF h.ip # <<>> THEN h.ip
    ELSE IF h.remoteAddress # <<>> THEN h.remoteAddress
    ELSE S_unknown

\* rateLimitGuard restarting the window at every request
rateLimitGuard_slidingWindow(store, clientIP, t) ==
    IF ~mapHas(store, clientIP) \/ t > mapGet(store, clientIP).resetTime
    THEN [next |-> TRUE, status |-> 0, retryAfter |-> 0, header |-> <<>>,
          created |-> TRUE,
          store |-> mapSet(store, [key |-> clientIP, count |-> 1,
                                   resetTime |-> t + RATE_LIMIT_WINDOW_MS])]
    ELSE LET e == mapGet(store, clientIP)
             entry == [e EXCEPT !.count = e.count + 1,
                                !.resetTime = t + RATE_LIMIT_WINDOW_MS]
         IN  IF entry.count > RATE_LIMIT_MAX_REQUESTS
             THEN [next |-> FALSE, status |-> 429, created |-> FALSE,
                   retryAfter |-> ceilDiv(entry.resetTime - t, MS_PER_SECOND),
                   header |-> String(ceilDiv(entry.resetTime - t, MS_PER_SECOND)),
                   store |-> mapSet(store, entry)]
             ELSE [next |-> TRUE, status |-> 0, retryAfter |-> 0, header |-> <<>>,
                   created |-> FALSE,
                   store |-> mapSet(store, entry)]

\* rateLimitGuard counting every client under one key
rateLimitGuard_sharedKey(store, clientIP, t) ==
    LET ip == S_unknown IN
    IF ~mapHas(store, ip) \/ t > mapGet(store, ip).resetTime
    THEN [next |-> TRUE, status |-> 0, retryAfter |-> 0, header |-> <<>>,
          created |-> TRUE,
          store |-> mapSet(store, [key |-> ip, count |-> 1,
                                   resetTime |-> t + RATE_LIMIT_WINDOW_MS])]
    ELSE LET e == mapGet(store, ip)
             entry == [e EXCEPT !.count = e.count + 1]
         IN  IF entry.count > RATE_LIMIT_MAX_REQUESTS
             THEN [next |-> FALSE, status |-> 429, created |-> FALSE,
                   retryAfter |-> ceilDiv(entry.resetTime - t, MS_PER_SECOND),
                   header |-> String(ceilDiv(entry.resetTime - t, MS_PER_SECOND)),
                   store |-> mapSet(store, entry)]
             ELSE [next |-> TRUE, status |-> 0, retryAfter |-> 0, header |-> <<>>,
                   created |-> FALSE,
                   store |-> mapSet(store, entry)]

\* rateLimitGuard rounding the remaining seconds down
rateLimitGuard_floorSeconds(store, clientIP, t) ==
    IF ~mapHas(store, clientIP) \/ t > mapGet(store, clientIP).resetTime
    THEN [next |-> TRUE, status |-> 0, retryAfter |-> 0, header |-> <<>>,
          created |-> TRUE,
          store |-> mapSet(store, [key |-> clientIP, count |-> 1,
                                   resetTime |-> t + RATE_LIMIT_WINDOW_MS])]
    ELSE LET e == mapGet(store, clientIP)
             entry == [e EXCEPT !.count = e.count + 1]
         IN  IF entry.count > RATE_LIMIT_MAX_REQUESTS
             THEN [next |-> FALSE, status |-> 429, created |-> FALSE,
                   retryAfter |-> ((entry.resetTime - t) \div MS_PER_SECOND),
                   header |-> String(((entry.resetTime - t) \div MS_PER_SECOND)),
                   store |-> mapSet(store, entry)]
             ELSE [next |-> TRUE, status |-> 0, retryAfter |-> 0, header |-> <<>>,
                   created |-> FALSE,
                   store |-> mapSet(store, entry)]

\* rateLimitGuard that opens a window only for a key without an entry
rateLimitGuard_noRollover(store, clientIP, t) ==
    IF ~mapHas(store, clientIP)
    THEN [next |-> TRUE, status |-> 0, retryAfter |-> 0, header |-> <<>>,
          created |-> TRUE,
          store |-> mapSet(store, [key |-> clientIP, count |-> 1,
                                   resetTime |-> t + RATE_LIMIT_WINDOW_MS])]
    ELSE LET e == mapGet(store, clientIP)
             entry == [e EXCEPT !.count = e.count + 1]
         IN  IF entry.count > RATE_LIMIT_MAX_REQUESTS
             THEN [next |-> FALSE, status |-> 429, created |-> FALSE,
                   retryAfter |-> ceilDiv(entry.resetTime - t, MS_PER_SECOND),
                   header |-> String(ceilDiv(entry.resetTime - t, MS_PER_SECOND)),
                   store |-> mapSet(store, entry)]
             ELSE [next |-> TRUE, status |-> 0, retryAfter |-> 0, header |-> <<>>,
                   created |-> FALSE,
                   store |-> mapSet(store, entry)]

\* rateLimitGuard letting one request more than the maximum through
rateLimitGuard_onePast(store, clientIP, t) ==
    IF ~mapHas(store, clientIP) \/ t > mapGet(store, clientIP).resetTime
    THEN [next |-> TRUE, status |-> 0, retryAfter |-> 0, header |-> <<>>,
          created |-> TRUE,
          store |-> mapSet(store, [key |-> clientIP, count |-> 1,
                                   resetTime |-> t + RATE_LIMIT_WINDOW_MS])]
    ELSE LET e == mapGet(store, clientIP)
             entry == [e EXCEPT !.count = e.count + 1]
         IN  IF entry.count > RATE_LIMIT_MAX_REQUESTS + 1
             THEN [next |-> FALSE, status |-> 429, created |-> FALSE,
                   retryAfter |-> ceilDiv(entry.resetTime - t, MS_PER_SECOND),
                   header |-> String(ceilDiv(entry.resetTime - t, MS_PER_SECOND)),
                   store |-> mapSet(store, entry)]
             ELSE [next |-> TRUE, status |-> 0, retryAfter |-> 0, header |-> <<>>,
                   created |-> FALSE,
                   store |-> mapSet(store, entry)]

\* rateLimitGuard with ">=" for ">" in the limit test
rateLimitGuard_offByOne(store, clientIP, t) ==
    IF ~mapHas(store, clientIP) \/ t > mapGet(store, clientIP).resetTime
    THEN [next |-> TRUE, status |-> 0, retryAfter |-> 0, header |-> <<>>,
          created |-> TRUE,
          store |-> mapSet(store, [key |-> clientIP, count |-> 1,
                                   resetTime |-> t + RATE_LIMIT_WINDOW_MS])]
    ELSE LET e == mapGet(store, clientIP)
             entry == [e EXCEPT !.count = e.count + 1]
         IN  IF entry.count >= RATE_LIMIT_MAX_REQUESTS
             THEN [next |-> FALSE, status |-> 429, created |-> FALSE,
                   retryAfter |-> ceilDiv(entry.resetTime - t, MS_PER_SECOND),
                   header |-> String(ceilDiv(entry.resetTime - t, MS_PER_SECOND)),
                   store |-> mapSet(store, entry)]
             ELSE [next |-> TRUE, status |-> 0, retryAfter |-> 0, header |-> <<>>,
                   created |-> FALSE,
                   store |-> mapSet(store, entry)]

\* rateLimitGuard(req, res, next) on the store at time t: the decision
\* (next called, or status 429 with retryAfter) and the store it leaves
rateLimitGuard(store, clientIP, t) ==
    IF ~mapHas(store, clientIP) \/ t > mapGet(store, clientIP).resetTime
    THEN [next |-> TRUE, status |-> 0, retryAfter |-> 0, header |-> <<>>,
          created |-> TRUE,
          store |-> mapSet(store, [key |-> clientIP, count |-> 1,
                                   resetTime |-> t + RATE_LIMIT_WINDOW_MS])]
    ELSE LET e == mapGet(store, clientIP)
             entry == [e EXCEPT !.count = e.count + 1]
         IN  IF entry.count > RATE_LIMIT_MAX_REQUESTS
             THEN [next |-> FALSE, status |-> 429, created |-> FALSE,
                   retryAfter |-> ceilDiv(entry.resetTime - t, MS_PER_SECOND),
                   header |-> String(ceilDiv(entry.resetTime - t, MS_PER_SECOND)),
                   store |-> mapSet(store, entry)]
             ELSE [next |-> TRUE, status |-> 0, retryAfter |-> 0, header |-> <<>>,
                   created |-> FALSE,
                   store |-> mapSet(store, entry)]

BOT_PATTERNS == {
    <<"b","o","t">>, <<"c","r","a","w","l","e","r">>, <<"s","p","i","d","e","r">>,
    <<"s","c","r","a","p","e","r">>, <<"c","u","r","l">>, <<"w","g","e","t">>,
    <<"p","y","t","h","o","n","-","r","e","q","u","e","s","t","s">>,
    <<"g","o","-","h","t","t","p","-","c","l","i","e","n","t">>,
    <<"j","a","v","a","/">>, <<"r","u","b","y">>,
    <<"h","e","a","d","l","e","s","s">>, <<"p","h","a","n","t","o","m">>,
    <<"s","e","l","e","n","i","u","m">>, <<"p","u","p","p","e","t","e","e","r">>,
    <<"p","l","a","y","w","r","i","g","h","t">> }

\* botGuard matching the deny list against the user-agent as sent
botGuard_caseSensitive(path, userAgent) ==
    IF path = S_health THEN TRUE
    ELSE LET ua == userAgent
         IN  IF ua = <<>> \/ Len(ua) < MIN_UA_LENGTH THEN FALSE
             ELSE IF \E pattern \in BOT_PATTERNS : includes(ua, pattern) THEN FALSE
             ELSE TRUE

\* botGuard(req, res, next): TRUE when next is called, FALSE on 403
botGuard(path, userAgent) ==
    IF path = S_health THEN TRUE
    ELSE LET ua == toLowerCase(userAgent)
         IN  IF ua = <<>> \/ Len(ua) < MIN_UA_LENGTH THEN FALSE
             ELSE IF \E pattern \in BOT_PATTERNS : includes(ua, pattern) THEN FALSE
             ELSE TRUE

\* requestValidationGuard(req, res, next): TRUE when next is called, FALSE on 415
requestValidationGuard(method, contentType) ==
    IF method \in {"POST", "PUT", "PATCH"}
    THEN IF contentType = <<>> \/ ~includes(contentType, S_json) THEN FALSE ELSE TRUE
    ELSE TRUE

\* apiKeyGuard(req, res, next): TRUE when next is called, FALSE on 401
apiKeyGuard(key, expectedKey) ==
    IF expectedKey = "" THEN TRUE
    ELSE IF key = "" \/ key # expectedKey THEN FALSE
    ELSE TRUE

\* apiKeyGuard of the earlier securityMiddleware.ts (part_005): no branch for
\* an unset BACKEND_ACCESS_KEY ("" stands for undefined)
part005_apiKeyGuard(key, expectedKey) ==
    IF key = "" \/ key # expectedKey THEN FALSE
    ELSE TRUE

\* concurrencyGuard admitting one request at a time, whatever its token
concurrencyGuard_globalLock(sessions, sessionId) ==
    IF sessionId = NoSession
    THEN [next |-> FALSE, status |-> 400, sessions |-> sessions, registered |-> FALSE]
    ELSE IF Len(sessions) > 0
    THEN [next |-> FALSE, status |-> 429, sessions |-> sessions, registered |-> FALSE]
    ELSE IF Len(sessions) >= MAX_ACTIVE_SESSIONS
    THEN [next |-> FALSE, status |-> 503, sessions |-> sessions, registered |-> FALSE]
    ELSE [next |-> TRUE, status |-> 0, registered |-> TRUE,
          sessions |-> mapSet(sessions, [key |-> sessionId, val |-> TRUE])]

\* concurrencyGuard registering its 'finish' listener before the test for a
\* lease already held
concurrencyGuard_listenFirst(sessions, sessionId) ==
    IF sessionId = NoSession
    THEN [next |-> FALSE, status |-> 400, sessions |-> sessions, registered |-> FALSE]
    ELSE IF mapHas(sessions, sessionId) /\ mapGet(sessions, sessionId).val
    THEN [next |-> FALSE, status |-> 429, sessions |-> sessions, registered |-> TRUE]
    ELSE IF Len(sessions) >= MAX_ACTIVE_SESSIONS
    THEN [next |-> FALSE, status |-> 503, sessions |-> sessions, registered |-> FALSE]
    ELSE [next |-> TRUE, status |-> 0, registered |-> TRUE,
          sessions |-> mapSet(sessions, [key |-> sessionId, val |-> TRUE])]

\* concurrencyGuard without the MAX_ACTIVE_SESSIONS test
concurrencyGuard_noCeiling(sessions, sessionId) ==
    IF sessionId = NoSession
    THEN [next |-> FALSE, status |-> 400, sessions |-> sessions, registered |-> FALSE]
    ELSE IF mapHas(sessions, sessionId) /\ mapGet(sessions, sessionId).val
    THEN [next |-> FALSE, status |-> 429, sessions |-> sessions, registered |-> FALSE]
    ELSE [next |-> TRUE, status |-> 0, registered |-> TRUE,
          sessions |-> mapSet(sessions, [key |-> sessionId, val |-> TRUE])]

\* concurrencyGuard without the test for a lease already held
concurrencyGuard_noCheck(sessions, sessionId) ==
    IF sessionId = NoSession
    THEN [next |-> FALSE, status |-> 400, sessions |-> sessions, registered |-> FALSE]
    ELSE IF Len(sessions) >= MAX_ACTIVE_SESSIONS /\ ~mapHas(sessions, sessionId)
    THEN [next |-> FALSE, status |-> 503, sessions |-> sessions, registered |-> FALSE]
    ELSE [next |-> TRUE, status |-> 0, registered |-> TRUE,
          sessions |-> mapSet(sessions, [key |-> sessionId, val |-> TRUE])]

\* concurrencyGuard(req, res, next): the decision, the session map it leaves,
\* and whether it registered the res.on("finish") handler
concurrencyGuard(sessions, sessionId) ==
    IF sessionId = NoSession
    THEN [next |-> FALSE, status |-> 400, sessions |-> sessions, registered |-> FALSE]
    ELSE IF mapHas(sessions, sessionId) /\ mapGet(sessions, sessionId).val
    THEN [next |-> FALSE, status |-> 429, sessions |-> sessions, registered |-> FALSE]
    ELSE IF Len(sessions) >= MAX_ACTIVE_SESSIONS
    THEN [next |-> FALSE, status |-> 503, sessions |-> sessions, registered |-> FALSE]
    ELSE [next |-> TRUE, status |-> 0, registered |-> TRUE,
          sessions |-> mapSet(sessions, [key |-> sessionId, val |-> TRUE])]

\* captchaGuard without its test for a missing token
captchaGuard_noTokenCheck(captchaToken, secretKey, nodeEnv) ==
    IF nodeEnv = "production" /\ secretKey = "" THEN "deny503"
    ELSE IF secretKey = "" /\ nodeEnv # "production" THEN "next"
    ELSE "fetch"

\* captchaGuard without its development skip
captchaGuard_noDevSkip(captchaToken, secretKey, nodeEnv) ==
    IF nodeEnv = "production" /\ secretKey = "" THEN "deny503"
    ELSE IF captchaToken = "" THEN "deny400"
    ELSE "fetch"

\* captchaGuard testing for the token before it tests the configuration
captchaGuard_tokenFirst(captchaToken, secretKey, nodeEnv) ==
    IF captchaToken = "" THEN "deny400"
    ELSE IF nodeEnv = "production" /\ secretKey = "" THEN "deny503"
    ELSE IF secretKey = "" /\ nodeEnv # "production" THEN "next"
    ELSE "fetch"

\* captchaGuard up to its first await: 503 / next / 400, or "fetch" when the
\* verification request is sent and the guard suspends
captchaGuard(captchaToken, secretKey, nodeEnv) ==
    IF nodeEnv = "production" /\ secretKey = "" THEN "deny503"
    ELSE IF secretKey = "" /\ nodeEnv # "production" THEN "next"
    ELSE IF captchaToken = "" THEN "deny400"
    ELSE "fetch"

\* captchaGuard whose catch block lets the request through
captchaGuardResume_failOpen(verdict) ==
    CASE verdict = "success" -> [next |-> TRUE, status |-> 0]
      [] verdict = "failure" -> [next |-> FALSE, status |-> 403]
      [] OTHER -> [next |-> TRUE, status |-> 0]

\* captchaGuard after the await: the verdict of the verification service, or
\* the catch block when fetch / json() threw
captchaGuardResume(verdict) ==
    CASE verdict = "success" -> [next |-> TRUE, status |-> 0]
      [] verdict = "failure" -> [next |-> FALSE, status |-> 403]
      [] OTHER -> [next |-> FALSE, status |-> 500]

\* securityMiddleware running botGuard ahead of rateLimitGuard
securityMiddleware_botFirst(store, r, t) ==
    LET rl == rateLimitGuard(store, getClientIP(r.headers), t)
    IN  IF ~botGuard(r.path, r.ua)
        THEN [next |-> FALSE, status |-> 403, reason |-> "bot",
              retryAfter |-> 0, header |-> <<>>,
              store |-> store, created |-> FALSE]
        ELSE IF ~rl.next
        THEN [next |-> FALSE, status |-> rl.status, reason |-> "rate",
              retryAfter |-> rl.retryAfter, header |-> rl.header,
              store |-> rl.store, created |-> rl.created]
        ELSE IF ~requestValidationGuard(r.method, r.contentType)
        THEN [next |-> FALSE, status |-> 415, reason |-> "contentType",
              retryAfter |-> 0, header |-> <<>>,
              store |-> rl.store, created |-> rl.created]
        ELSE [next |-> TRUE, status |-> 0, reason |-> "",
              retryAfter |-> 0, header |-> <<>>,
              store |-> rl.store, created |-> rl.created]

\* securityMiddleware whose rate-limit denial does not end the chain
securityMiddleware_passThrough(store, r, t) ==
    LET rl == rateLimitGuard(store, getClientIP(r.headers), t)
    IN  IF ~botGuard(r.path, r.ua)
        THEN [next |-> FALSE, status |-> 403, reason |-> "bot",
              retryAfter |-> 0, header |-> <<>>,
              store |-> rl.store, created |-> rl.created]
        ELSE IF ~requestValidationGuard(r.method, r.contentType)
        THEN [next |-> FALSE, status |-> 415, reason |-> "contentType",
              retryAfter |-> 0, header |-> <<>>,
              store |-> rl.store, created |-> rl.created]
        ELSE [next |-> TRUE, status |-> rl.status, reason |-> "",
              retryAfter |-> rl.retryAfter, header |-> rl.header,
              store |-> rl.store, created |-> rl.created]

\* securityMiddleware(req, res, next): rateLimitGuard, then botGuard, then
\* requestValidationGuard, each run only if the one before called next
securityMiddleware(store, r, t) ==
    LET rl == rateLimitGuard(store, getClientIP(r.headers), t)
    IN  IF ~rl.next
        THEN [next |-> FALSE, status |-> rl.status, reason |-> "rate",
              retryAfter |-> rl.retryAfter, header |-> rl.header,
              store |-> rl.store, created |-> rl.created]
        ELSE IF ~botGuard(r.path, r.ua)
        THEN [next |-> FALSE, status |-> 403, reason |-> "bot",
              retryAfter |-> 0, header |-> <<>>,
              store |-> rl.store, created |-> rl.created]
        ELSE IF ~requestValidationGuard(r.method, r.contentType)
        THEN [next |-> FALSE, status |-> 415, reason |-> "contentType",
              retryAfter |-> 0, header |-> <<>>,
              store |-> rl.store, created |-> rl.created]
        ELSE [next |-> TRUE, status |-> 0, reason |-> "",
              retryAfter |-> 0, header |-> <<>>,
              store |-> rl.store, created |-> rl.created]

----------------------------------------------------------------------------
(* The analysis endpoint: concurrency -> CAPTCHA -> credential -> handler.   *)
(* protectedRoute runs what is synchronous after securityMiddleware called  *)
(* next: it ends in a response (status), in the suspended verification call *)
(* (pc "verifying") or in the suspended handler (pc "analyzing").           *)

S_analyze == "/api/analyze-repo"
S_types == "/api/analysis-types"

afterCaptcha(r, expectedKey) ==
    IF apiKeyGuard(r.apiKey, expectedKey)
    THEN [pc |-> "analyzing", status |-> 0, reason |-> ""]
    ELSE [pc |-> "responded", status |-> 401, reason |-> "unauthorized"]

protectedRoute(sessions, r, e) ==
    LET cc == concurrencyGuard(sessions, r.sid)
        cg == captchaGuard(r.captchaToken, e.TURNSTILE_SECRET_KEY, e.NODE_ENV)
        denied(st, why) == [pc |-> "responded", status |-> st, reason |-> why,
                            sessions |-> cc.sessions, registered |-> cc.registered]
    IN  IF ~cc.next
        THEN denied(cc.status, CASE cc.status = 400 -> "missingSession"
                                 [] cc.status = 429 -> "concurrent"
                                 [] OTHER -> "capacity")
        ELSE CASE cg = "deny503" -> denied(503, "misconfigured")
               [] cg = "deny400" -> denied(400, "captchaRequired")
               [] cg = "fetch" -> [pc |-> "verifying", status |-> 0, reason |-> "",
                                   sessions |-> cc.sessions, registered |-> cc.registered]
               [] OTHER -> LET ak == afterCaptcha(r, e.BACKEND_ACCESS_KEY)
                           IN  [pc |-> ak.pc, status |-> ak.status, reason |-> ak.reason,
                                sessions |-> cc.sessions, registered |-> cc.registered]

----------------------------------------------------------------------------
(* Observers *)

IdleReq == [pc |-> "idle", sid |-> NoSession, registered |-> FALSE,
            aborted |-> FALSE, apiKey |-> "", status |-> 0]

NoSeen == [n |-> 0, opened |-> -1, allowedE |-> 0,
           first |-> -1, allowedW |-> 0, evicted |-> FALSE,
           wopened |-> -1, wn |-> 0]

BlankLast == [kind |-> "", key |-> <<>>, uaListed |-> FALSE,
              path |-> "", sid |-> NoSession, hasToken |-> FALSE,
              status |-> 0, reason |-> "", retryAfter |-> 0, header |-> <<>>,
              nth |-> 0,
              held |-> FALSE, sizeBefore |-> 0, rolled |-> FALSE]

\* no x-api-key has been checked yet; status 0 stands for next()
NoGate == [checked |-> FALSE, key |-> "", status |-> 0, part005 |-> 0]

\* no function has been called on its own yet
NoCall == [fn |-> ""]

\* user-agents of the request inputs that carry a deny-listed substring
ListedUAs == {UA_curl}

\* the history of key k after a request at time t that the limiter answered
\* with `allowed`, creating the entry or not:
\*   n        requests handled against the key's current entry
\*   opened   arrival time of the request that created the current entry
\*   allowedE allowed requests among those n
\*   first    arrival time of an allowed, entry-creating request of the key
\*            that lies at most one window back (the oldest one recorded)
\*   allowedW allowed requests of the key that arrived in [first, first + W]
\*   evicted  the capacity eviction removed an entry of the key since `first`
\*   wopened  arrival time of the key's first request that lies at most one
\*            window back, by the clock alone
\*   wn       requests of the key that arrived in [wopened, wopened + W]
entryHistory(sn, t, created, allowed) ==
    LET a == IF allowed THEN 1 ELSE 0
    IN  IF created
        THEN IF sn.first >= 0 /\ t <= sn.first + RATE_LIMIT_WINDOW_MS
             THEN [sn EXCEPT !.n = 1, !.opened = t, !.allowedE = 1,
                             !.allowedW = sn.allowedW + 1]
             ELSE IF sn.opened >= 0 /\ t <= sn.opened + RATE_LIMIT_WINDOW_MS
             THEN [sn EXCEPT !.n = 1, !.opened = t, !.allowedE = 1, !.first = sn.opened,
                             !.allowedW = sn.allowedE + 1, !.evicted = TRUE]
             ELSE [sn EXCEPT !.n = 1, !.opened = t, !.allowedE = 1, !.first = t,
                             !.allowedW = 1, !.evicted = FALSE]
        ELSE IF t <= sn.first + RATE_LIMIT_WINDOW_MS
             THEN [sn EXCEPT !.n = sn.n + 1, !.allowedE = sn.allowedE + a,
                             !.allowedW = sn.allowedW + a]
             ELSE [sn EXCEPT !.n = sn.n + 1, !.allowedE = sn.allowedE + a,
                             !.first = sn.opened, !.allowedW = sn.allowedE + a,
                             !.evicted = FALSE]

seenAfter(sn, t, created, allowed) ==
    LET h == entryHistory(sn, t, created, allowed)
    IN  IF sn.wopened >= 0 /\ t <= sn.wopened + RATE_LIMIT_WINDOW_MS
        THEN [h EXCEPT !.wopened = sn.wopened, !.wn = sn.wn + 1]
        ELSE [h EXCEPT !.wopened = t, !.wn = 1]

\* more than W has elapsed at time t since a window was opened at time `opened`
windowOver(opened, t, W) == opened >= 0 /\ t > opened + W

\* a request admitted with this token has not completed its response
tokenHeld(sid) ==
    \/ sid \in leaked
    \/ \E s \in Slots : reqs[s].pc # "idle" /\ reqs[s].registered /\ reqs[s].sid = sid

----------------------------------------------------------------------------
(* Timers of the backend *)

\* the cleanupInterval callback without its overflow branch
cleanupInterval_expiredOnly(store, t) ==
    SelectSeq(store, LAMBDA e : ~(t > e.resetTime))

\* the cleanupInterval callback: the store it leaves when it runs at time t
cleanupInterval(store, t) ==
    LET live == SelectSeq(store, LAMBDA e : ~(t > e.resetTime))
    IN  IF Len(live) > MAX_RATE_LIMIT_ENTRIES
        THEN LET entriesToRemove == Len(live) - MAX_RATE_LIMIT_ENTRIES
             IN  SubSeq(live, entriesToRemove + 1, Len(live))
        ELSE live

\* the sessionCleanupInterval callback clearing from a full map on
sessionCleanupInterval_atCapacity(sessions) ==
    IF Len(sessions) >= MAX_ACTIVE_SESSIONS
    THEN LET toClear == Len(sessions) \div 2
         IN  SubSeq(sessions, toClear + 1, Len(sessions))
    ELSE sessions

\* the sessionCleanupInterval callback: the session map it leaves
sessionCleanupInterval(sessions) ==
    IF Len(sessions) > MAX_ACTIVE_SESSIONS
    THEN LET toClear == Len(sessions) \div 2
         IN  SubSeq(sessions, toClear + 1, Len(sessions))
    ELSE sessions

\* a request without a res.on("finish") listener
onFinish_never(sessions, rq) == sessions

\* the res.on("finish") listeners of a request: concurrencyGuard registered
\* one (activeSessions.delete(sessionId)) only when it admitted the request
onFinish(sessions, rq) ==
    IF rq.registered THEN mapDelete(sessions, rq.sid) ELSE sessions

----------------------------------------------------------------------------
(* Actions of the backend *)

Envs == [NODE_ENV : {"production", "development"},
         TURNSTILE_SECRET_KEY : {"", "sec"},
         BACKEND_ACCESS_KEY : {"", "k1"},
         EMERGENCY_SHUTDOWN : {"", "true"}]

TimeSteps == {1, RATE_LIMIT_WINDOW_MS - 1}

Keys == {IP_a, IP_b, IP_c, S_unknown}

\* the clock advances
Tick(steps) ==
    /\ ticks < MaxTicks
    /\ \E d \in steps : now' = now + d
    /\ ticks' = ticks + 1
    /\ last' = BlankLast
    /\ UNCHANGED <<sent, env, rateLimitStore, activeSessions, reqs, seen, leaked, released, edgeVars, gate, call>>

lowestIdle(S, s) ==
    /\ s \in S
    /\ reqs[s].pc = "idle"
    /\ \A s2 \in S : s2 < s => reqs[s2].pc # "idle"

\* a request arrives on connection s and runs until it has a response or
\* suspends in an await.  A response that ends before concurrencyGuard
\* registered its 'finish' listener has none: its completion changes nothing
\* and the connection is free again at once.
Arrive(s, r) ==
    /\ reqs[s].pc = "idle"
    /\ sent < MaxRequests
    /\ sent' = sent + 1
    /\ \E sm \in {securityMiddleware(rateLimitStore, r, now)} :
       \E key \in {getClientIP(r.headers)} :
       \E sn \in {seenAfter(seen[key], now, sm.created, sm.reason # "rate")} :
       \E lst \in {[BlankLast EXCEPT !.kind = "arrive", !.key = key,
                                     !.uaListed = (r.ua \in ListedUAs), !.path = r.path,
                                     !.sid = r.sid, !.hasToken = (r.captchaToken # ""),
                                     !.retryAfter = sm.retryAfter,
                                     !.header = sm.header, !.nth = sn.wn,
                                     !.rolled = windowOver(seen[key].opened, now,
                                                           RATE_LIMIT_WINDOW_MS)]} :
        /\ rateLimitStore' = sm.store
        /\ seen' = [seen EXCEPT ![key] = sn]
        /\ IF ~sm.next
           THEN /\ last' = [lst EXCEPT !.status = sm.status, !.reason = sm.reason]
                /\ UNCHANGED <<reqs, activeSessions>>
           ELSE IF r.path # S_analyze
           THEN /\ last' = [lst EXCEPT !.status = 200, !.reason = "ok"]
                /\ UNCHANGED <<reqs, activeSessions>>
           ELSE \E pr \in {protectedRoute(activeSessions, r, env)} :
                    /\ activeSessions' = pr.sessions
                    /\ reqs' = IF ~pr.registered THEN reqs
                                ELSE [reqs EXCEPT ![s] =
                          [pc |-> pr.pc, sid |-> r.sid, registered |-> TRUE,
                           aborted |-> FALSE, status |-> pr.status,
                           apiKey |-> IF pr.pc = "verifying" THEN r.apiKey ELSE ""]]
                    /\ last' = [lst EXCEPT !.status = pr.status, !.reason = pr.reason,
                                           !.held = tokenHeld(r.sid),
                                           !.sizeBefore = Len(activeSessions)]
    /\ UNCHANGED <<now, ticks, env, leaked, released, edgeVars, gate, call>>

\* the verification service answers (or the call throws) and captchaGuard resumes
VerifyReturns(s, verdict) ==
    /\ reqs[s].pc = "verifying"
    /\ LET cg == captchaGuardResume(verdict)
           ak == afterCaptcha(reqs[s], env.BACKEND_ACCESS_KEY)
       IN  IF cg.next
           THEN reqs' = [reqs EXCEPT ![s].pc = ak.pc, ![s].status = ak.status,
                                     ![s].apiKey = ""]
           ELSE reqs' = [reqs EXCEPT ![s].pc = "responded", ![s].status = cg.status,
                                     ![s].apiKey = ""]
    /\ last' = BlankLast
    /\ UNCHANGED <<now, ticks, sent, env, rateLimitStore, activeSessions, seen, leaked, released, edgeVars, gate, call>>

\* the route handler ends the response (result, or error caught by the handler)
HandlerResponds(s, st) ==
    /\ reqs[s].pc = "analyzing"
    /\ reqs' = [reqs EXCEPT ![s].pc = "responded", ![s].status = st]
    /\ last' = BlankLast
    /\ UNCHANGED <<now, ticks, sent, env, rateLimitStore, activeSessions, seen, leaked, released, edgeVars, gate, call>>

\* the response has been handed to the operating system: 'finish' is emitted
Finish(s) ==
    /\ reqs[s].pc = "responded"
    /\ ~reqs[s].aborted
    /\ activeSessions' = onFinish(activeSessions, reqs[s])
    /\ reqs' = [reqs EXCEPT ![s] = IdleReq]
    /\ released' = IF reqs[s].registered THEN released \cup {reqs[s].sid} ELSE released
    /\ last' = BlankLast
    /\ UNCHANGED <<now, ticks, sent, env, rateLimitStore, seen, leaked, edgeVars, gate, call>>

\* the client drops the connection while the request is suspended: 'close' is
\* emitted, for which no guard registered a listener; the request's code goes on
Abort(s) ==
    /\ reqs[s].pc \in {"verifying", "analyzing"}
    /\ ~reqs[s].aborted
    /\ reqs' = [reqs EXCEPT ![s].aborted = TRUE]
    /\ last' = BlankLast
    /\ UNCHANGED <<now, ticks, sent, env, rateLimitStore, activeSessions, seen, leaked, released, edgeVars, gate, call>>

\* the code of an aborted request ends its response: the socket is destroyed,
\* nothing is flushed and 'finish' is never emitted
EndAborted(s) ==
    /\ reqs[s].pc = "responded"
    /\ reqs[s].aborted
    /\ reqs' = [reqs EXCEPT ![s] = IdleReq]
    /\ leaked' = IF reqs[s].registered THEN leaked \cup {reqs[s].sid} ELSE leaked
    /\ last' = BlankLast
    /\ UNCHANGED <<now, ticks, sent, env, rateLimitStore, activeSessions, seen, released, edgeVars, gate, call>>

\* the one-minute timer of the rate-limit store fires
CleanupTimer ==
    LET after == cleanupInterval(rateLimitStore, now)
        expired == {rateLimitStore[i].key :
                      i \in {j \in 1..Len(rateLimitStore) : now > rateLimitStore[j].resetTime}}
        capacityEvicted == (mapKeySet(rateLimitStore) \ mapKeySet(after)) \ expired
    IN  /\ rateLimitStore' = after
        /\ seen' = [k \in DOMAIN seen |->
                      IF k \in capacityEvicted THEN [seen[k] EXCEPT !.evicted = TRUE]
                      ELSE seen[k]]
        /\ last' = [BlankLast EXCEPT !.kind = "cleanup",
                                     !.sizeBefore = Len(rateLimitStore)]
        /\ UNCHANGED <<now, ticks, sent, env, activeSessions, reqs, leaked, released, edgeVars, gate, call>>

\* the two-minute timer of the session map fires
SessionCleanupTimer ==
    /\ activeSessions' = sessionCleanupInterval(activeSessions)
    /\ last' = [BlankLast EXCEPT !.kind = "sessionCleanup",
                                 !.sizeBefore = Len(activeSessions)]
    /\ UNCHANGED <<now, ticks, sent, env, rateLimitStore, reqs, seen, leaked, released, edgeVars, gate, call>>

\* a request with x-api-key `key` reaches the credential gate: the answer of
\* apiKeyGuard and the answer of the part_005 variant to the same request
CheckKey(key) ==
    /\ sent < MaxRequests
    /\ sent' = sent + 1
    /\ gate' = [checked |-> TRUE, key |-> key,
                status |-> IF apiKeyGuard(key, env.BACKEND_ACCESS_KEY) THEN 0 ELSE 401,
                part005 |-> IF part005_apiKeyGuard(key, env.BACKEND_ACCESS_KEY)
                            THEN 0 ELSE 401]
    /\ UNCHANGED <<now, ticks, env, backendVars, edgeVars, call>>

----------------------------------------------------------------------------
(* edge: the Next.js interceptor *)

P_analyze == <<"/","a","p","i","/","a","n","a","l","y","z","e","-","r","e","p","o">>
P_issue == <<"/","a","p","i","/","c","r","e","a","t","e","-","g","i","t","h","u","b","-","i","s","s","u","e">>
P_health == <<"/","h","e","a","l","t","h">>
P_script == <<"/","a",".","j","s">>
P_apiHealth == <<"/","a","p","i","/","h","e","a","l","t","h">>

startsWith(s, pre) == Len(s) >= Len(pre) /\ SubSeq(s, 1, Len(pre)) = pre
endsWith(s, suf) == Len(s) >= Len(suf) /\ SubSeq(s, Len(s) - Len(suf) + 1, Len(s)) = suf

\* config.matcher: the paths on which the interceptor runs
matcher == {P_analyze, P_issue}

\* the interceptor's getClientIP(req)
edge_getClientIP(h) ==
    IF h.xff # <<>> THEN trim(firstOfSplit(h.xff))
    ELSE IF h.realIp # <<>> THEN h.realIp
    ELSE S_unknown

botPatterns == {
    <<"b","o","t">>, <<"c","r","a","w","l","e","r">>, <<"s","p","i","d","e","r">>,
    <<"c","u","r","l">>, <<"p","y","t","h","o","n">>, <<"s","c","r","a","p","e","r">>,
    <<"w","g","e","t">>, <<"g","o","-","h","t","t","p","-","c","l","i","e","n","t">>,
    <<"j","a","v","a","/">>, <<"h","e","a","d","l","e","s","s">>,
    <<"p","h","a","n","t","o","m">>, <<"s","e","l","e","n","i","u","m">>,
    <<"p","u","p","p","e","t","e","e","r">>, <<"p","l","a","y","w","r","i","g","h","t">>,
    <<"a","x","i","o","s">>, <<"n","o","d","e","-","f","e","t","c","h">> }

\* the skip test of the interceptor for static assets, internals, auth, /health
edgeExempt(pathname) ==
    \/ startsWith(pathname, <<"/","_","n","e","x","t","/">>)
    \/ startsWith(pathname, <<"/","a","p","i","/","a","u","t","h","/">>)
    \/ includes(pathname, <<"/","_","v","e","r","c","e","l","/">>)
    \/ \E suf \in {<<".","c","s","s">>, <<".","j","s">>, <<".","w","o","f","f">>,
                   <<".","w","o","f","f","2">>, <<".","o","t","f">>, <<".","t","t","f">>,
                   <<".","i","c","o">>, <<".","p","n","g">>, <<".","j","p","g">>,
                   <<".","s","v","g">>} : endsWith(pathname, suf)
    \/ pathname = P_health

\* checkRateLimit(ip) denying from the RATE_LIMIT_MAX-th request of a window
checkRateLimit_offByOne(map, ip, t) ==
    IF ~mapHas(map, ip) \/ t > mapGet(map, ip).resetTime
    THEN [allowed |-> TRUE, retryAfter |-> 0,
          map |-> mapSet(map, [key |-> ip, count |-> 1,
                               resetTime |-> t + RATE_LIMIT_WINDOW])]
    ELSE LET e0 == mapGet(map, ip)
             entry == [e0 EXCEPT !.count = e0.count + 1]
         IN  IF entry.count >= RATE_LIMIT_MAX
             THEN [allowed |-> FALSE,
                   retryAfter |-> ceilDiv(entry.resetTime - t, MS_PER_SECOND),
                   map |-> mapSet(map, entry)]
             ELSE [allowed |-> TRUE, retryAfter |-> 0, map |-> mapSet(map, entry)]

\* checkRateLimit(ip) called at time t: its answer (retryAfter 0 where the
\* source leaves it undefined) and the map it leaves
checkRateLimit(map, ip, t) ==
    IF ~mapHas(map, ip) \/ t > mapGet(map, ip).resetTime
    THEN [allowed |-> TRUE, retryAfter |-> 0,
          map |-> mapSet(map, [key |-> ip, count |-> 1,
                               resetTime |-> t + RATE_LIMIT_WINDOW])]
    ELSE LET e0 == mapGet(map, ip)
             entry == [e0 EXCEPT !.count = e0.count + 1]
         IN  IF entry.count > RATE_LIMIT_MAX
             THEN [allowed |-> FALSE,
                   retryAfter |-> ceilDiv(entry.resetTime - t, MS_PER_SECOND),
                   map |-> mapSet(map, entry)]
             ELSE [allowed |-> TRUE, retryAfter |-> 0, map |-> mapSet(map, entry)]

\* cleanupRateLimitMap() deleting every entry of a map over the threshold
cleanupRateLimitMap_clear(map, t) ==
    IF Len(map) > EDGE_CLEANUP_THRESHOLD
    THEN <<>>
    ELSE map

\* cleanupRateLimitMap(): the map it leaves when called at time t
cleanupRateLimitMap(map, t) ==
    IF Len(map) > EDGE_CLEANUP_THRESHOLD
    THEN SelectSeq(map, LAMBDA e : ~(t > e.resetTime))
    ELSE map

\* middleware(req) testing the kill switch after the bot filter
middleware_switchAfterBot(map, r, t, e) ==
    LET out(st, why, ra, m) == [status |-> st, reason |-> why, retryAfter |-> ra,
                                header |-> IF st = 429 THEN String(ra) ELSE <<>>,
                                map |-> m]
    IN  IF edgeExempt(r.path) THEN out(0, "exempt", 0, map)
        ELSE IF r.ua = <<>> \/ Len(r.ua) < MIN_UA_LENGTH
                \/ LET lower == toLowerCase(r.ua)
                   IN  \E b \in botPatterns : includes(lower, b)
        THEN out(403, "bot", 0, map)
        ELSE IF e.EMERGENCY_SHUTDOWN = "true" THEN out(503, "maintenance", 0, map)
        ELSE LET cleaned == cleanupRateLimitMap(map, t)
                 clientIP == edge_getClientIP(r.headers)
             IN  IF ~mapHas(cleaned, clientIP) \/ t > mapGet(cleaned, clientIP).resetTime
                 THEN out(0, "", 0, mapSet(cleaned, [key |-> clientIP, count |-> 1,
                                                     resetTime |-> t + RATE_LIMIT_WINDOW]))
                 ELSE LET e0 == mapGet(cleaned, clientIP)
                          entry == [e0 EXCEPT !.count = e0.count + 1]
                      IN  IF entry.count > STRICT_RATE_LIMIT
                          THEN out(429, "rate",
                                   ceilDiv(entry.resetTime - t, MS_PER_SECOND),
                                   mapSet(cleaned, entry))
                          ELSE out(0, "", 0, mapSet(cleaned, entry))

\* middleware(req): the response (status 0 is NextResponse.next()) and the map
\* the call leaves
middleware(map, r, t, e) ==
    LET out(st, why, ra, m) == [status |-> st, reason |-> why, retryAfter |-> ra,
                                header |-> IF st = 429 THEN String(ra) ELSE <<>>,
                                map |-> m]
    IN  IF e.EMERGENCY_SHUTDOWN = "true" THEN out(503, "maintenance", 0, map)
        ELSE IF edgeExempt(r.path) THEN out(0, "exempt", 0, map)
        ELSE IF r.ua = <<>> \/ Len(r.ua) < MIN_UA_LENGTH
                \/ LET lower == toLowerCase(r.ua)
                   IN  \E b \in botPatterns : includes(lower, b)
        THEN out(403, "bot", 0, map)
        ELSE LET cleaned == cleanupRateLimitMap(map, t)
                 clientIP == edge_getClientIP(r.headers)
             IN  IF ~mapHas(cleaned, clientIP) \/ t > mapGet(cleaned, clientIP).resetTime
                 THEN out(0, "", 0, mapSet(cleaned, [key |-> clientIP, count |-> 1,
                                                     resetTime |-> t + RATE_LIMIT_WINDOW]))
                 ELSE LET e0 == mapGet(cleaned, clientIP)
                          entry == [e0 EXCEPT !.count = e0.count + 1]
                      IN  IF entry.count > STRICT_RATE_LIMIT
                          THEN out(429, "rate",
                                   ceilDiv(entry.resetTime - t, MS_PER_SECOND),
                                   mapSet(cleaned, entry))
                          ELSE out(0, "", 0, mapSet(cleaned, entry))

\* GET of app/api/health/route.ts: the status it answers with
GET(e) == IF e.EMERGENCY_SHUTDOWN = "true" THEN 503 ELSE 200

BlankEdge == [kind |-> "init", matched |-> FALSE, status |-> 0, reason |-> "",
              key |-> <<>>, retryAfter |-> 0, header |-> <<>>,
              uaListed |-> FALSE, overLimit |-> FALSE,
              nth |-> 0, cleanupRan |-> FALSE, sizeAfterCleanup |-> 0,
              rolled |-> FALSE]

\* the history of a key at the edge limiter: `opened` is the arrival time of
\* the key's first request that reached the limiter and lies at most one window
\* back, n the number of the key's requests that reached it since then
NoEdgeSeen == [n |-> 0, opened |-> -1]
edgeSeenAfter(sn, t) ==
    IF sn.opened >= 0 /\ t <= sn.opened + RATE_LIMIT_WINDOW
    THEN [sn EXCEPT !.n = sn.n + 1]
    ELSE [n |-> 1, opened |-> t]

\* the key has used up the quota of its current window at time t
edgeOverLimit(sn, t) ==
    sn.opened >= 0 /\ t <= sn.opened + RATE_LIMIT_WINDOW /\ sn.n >= STRICT_RATE_LIMIT

\* a request reaches the edge; the interceptor runs on the matched paths
EdgeRequest(r) ==
    /\ sent < MaxRequests
    /\ sent' = sent + 1
    /\ \E key \in {edge_getClientIP(r.headers)} :
       \E res \in {middleware(rateLimitMap, r, now, env)} :
       \E reached \in {res.reason \in {"", "rate"}} :
          IF r.path \in matcher
          THEN /\ rateLimitMap' = res.map
               /\ edgeSeen' = IF reached
                               THEN [edgeSeen EXCEPT ![key] = edgeSeenAfter(edgeSeen[key], now)]
                               ELSE edgeSeen
               /\ edgeLast' = [kind |-> "request", matched |-> TRUE,
                               status |-> res.status, reason |-> res.reason,
                               key |-> key, retryAfter |-> res.retryAfter,
                               header |-> res.header,
                               uaListed |-> (r.ua \in ListedUAs),
                               overLimit |-> edgeOverLimit(edgeSeen[key], now),
                               nth |-> IF reached THEN edgeSeenAfter(edgeSeen[key], now).n
                                       ELSE 0,
                               cleanupRan |-> reached /\ Len(rateLimitMap) > EDGE_CLEANUP_THRESHOLD,
                               sizeAfterCleanup |->
                                   IF reached THEN Len(cleanupRateLimitMap(rateLimitMap, now))
                                   ELSE 0,
                               rolled |-> reached /\ windowOver(edgeSeen[key].opened, now,
                                                                RATE_LIMIT_WINDOW)]
          ELSE /\ UNCHANGED <<rateLimitMap, edgeSeen>>
               /\ edgeLast' = [BlankEdge EXCEPT !.kind = "request", !.key = key,
                                  !.status = IF r.path = P_apiHealth THEN GET(env) ELSE 0]
    /\ UNCHANGED <<now, ticks, env, backendVars, gate, call>>

----------------------------------------------------------------------------
(* Calls of single functions *)

\* both identity resolvers are applied to the headers and transport address h
\* (the edge request has no transport address)
ResolveIdentity(h) ==
    /\ sent < MaxRequests
    /\ sent' = sent + 1
    /\ call' = [fn |-> "getClientIP", headers |-> h,
                backend |-> getClientIP(h), edge |-> edge_getClientIP(h)]
    /\ UNCHANGED <<now, ticks, env, backendVars, edgeVars, gate>>

\* both bot filters are applied to the user-agent ua of a request to a path
\* that is not exempt: TRUE when the request goes on, FALSE on 403
ClassifyUA(ua) ==
    /\ sent < MaxRequests
    /\ sent' = sent + 1
    /\ call' = [fn |-> "botGuard", ua |-> ua,
                backend |-> botGuard(S_types, ua),
                edge |-> middleware(<<>>, [headers |-> H_a, ua |-> ua, path |-> P_analyze],
                                    now, env).status # 403]
    /\ UNCHANGED <<now, ticks, env, backendVars, edgeVars, gate>>

\* the three limiters receive the same request of key k at the same time, each
\* on a map of its own that only it has written: rateLimitGuard, checkRateLimit
\* and the limiter inside middleware, which a browser's request to a page
\* reaches with k as its first forwarded address
NoLimiters == [store |-> <<>>, checkMap |-> <<>>, inlineMap |-> <<>>]
LimitAll(k) ==
    /\ sent < MaxRequests
    /\ sent' = sent + 1
    /\ LET prev == IF call.fn = "limiters" THEN call ELSE NoLimiters
           b == rateLimitGuard(prev.store, k, now)
           c == checkRateLimit(prev.checkMap, k, now)
           m == middleware(prev.inlineMap,
                           [headers |-> [xff |-> k, realIp |-> <<>>, ip |-> <<>>,
                                         remoteAddress |-> <<>>],
                            ua |-> UA_browser, path |-> P_analyze], now, env)
       IN  call' = [fn |-> "limiters", key |-> k, at |-> now,
                    store |-> b.store, checkMap |-> c.map, inlineMap |-> m.map,
                    backend |-> [allowed |-> b.next, retryAfter |-> b.retryAfter],
                    check |-> [allowed |-> c.allowed, retryAfter |-> c.retryAfter],
                    inline |-> [allowed |-> m.status # 429,
                                retryAfter |-> m.retryAfter]]
    /\ UNCHANGED <<now, ticks, env, backendVars, edgeVars, gate>>

\* two copies of each limiter receive the same requests: the timers and
\* cleanupRateLimitMap() run on the first copy's map, nothing but the limiter
\* touches the second. Only the entry of its own key is read and written by a
\* limiter, so the second copy of middleware, whose cleanupRateLimitMap() call
\* cannot be taken out, is given that entry alone
NoSweep == [store |-> <<>>, plainStore |-> <<>>, map |-> <<>>, plainMap |-> <<>>]
sweepState == IF call.fn = "sweep" THEN call ELSE NoSweep
only(map, k) == SelectSeq(map, LAMBDA e : e.key = k)
edgeAnswer(m) == [allowed |-> m.status # 429, retryAfter |-> m.retryAfter]

\* a request of key k reaches the two copies of rateLimitGuard
LimitBackend(k) ==
    /\ sent < MaxRequests
    /\ sent' = sent + 1
    /\ LET prev == sweepState
           a == rateLimitGuard(prev.store, k, now)
           b == rateLimitGuard(prev.plainStore, k, now)
       IN  call' = [fn |-> "sweep", side |-> "backend", key |-> k, at |-> now,
                    store |-> a.store, plainStore |-> b.store,
                    map |-> prev.map, plainMap |-> prev.plainMap,
                    swept |-> [allowed |-> a.next, retryAfter |-> a.retryAfter],
                    unswept |-> [allowed |-> b.next, retryAfter |-> b.retryAfter],
                    gone |-> ~mapHas(prev.store, k) /\ mapHas(prev.plainStore, k)]
    /\ UNCHANGED <<now, ticks, env, backendVars, edgeVars, gate>>

\* a browser's request to a page with first forwarded address k reaches the
\* two copies of middleware
LimitEdge(k) ==
    /\ sent < MaxRequests
    /\ sent' = sent + 1
    /\ LET prev == sweepState
           r == [headers |-> [xff |-> k, realIp |-> <<>>, ip |-> <<>>,
                              remoteAddress |-> <<>>],
                 ua |-> UA_browser, path |-> P_analyze]
           a == middleware(prev.map, r, now, env)
           b == middleware(only(prev.plainMap, k), r, now, env)
       IN  call' = [fn |-> "sweep", side |-> "edge", key |-> k, at |-> now,
                    store |-> prev.store, plainStore |-> prev.plainStore,
                    map |-> a.map,
                    plainMap |-> mapSet(prev.plainMap, mapGet(b.map, k)),
                    swept |-> edgeAnswer(a), unswept |-> edgeAnswer(b),
                    gone |-> ~mapHas(prev.map, k) /\ mapHas(prev.plainMap, k)]
    /\ UNCHANGED <<now, ticks, env, backendVars, edgeVars, gate>>

\* the cleanupInterval callback and cleanupRateLimitMap() run on the first
\* copies between two requests
SweepExpired ==
    /\ call.fn = "sweep"
    /\ call' = [call EXCEPT !.side = "timer",
                            !.store = cleanupInterval(call.store, now),
                            !.map = cleanupRateLimitMap(call.map, now)]
    /\ UNCHANGED <<now, ticks, sent, env, backendVars, edgeVars, gate>>

----------------------------------------------------------------------------
(* Specifications *)

InitWith(E) ==
    /\ now = 0
    /\ ticks = 0
    /\ sent = 0
    /\ env \in E
    /\ rateLimitStore = <<>>
    /\ activeSessions = <<>>
    /\ reqs = [s \in Slots |-> IdleReq]
    /\ last = BlankLast
    /\ seen = [k \in Keys |-> NoSeen]
    /\ leaked = {}
    /\ released = {}
    /\ rateLimitMap = <<>>
    /\ edgeLast = BlankEdge
    /\ edgeSeen = [k \in Keys |-> NoEdgeSeen]
    /\ gate = NoGate
    /\ call = NoCall

DevEnv == [NODE_ENV |-> "development", TURNSTILE_SECRET_KEY |-> "",
           BACKEND_ACCESS_KEY |-> "", EMERGENCY_SHUTDOWN |-> ""]

\* production without the CAPTCHA secret; production fully configured;
\* development with nothing configured
BackendEnvs ==
    { [NODE_ENV |-> "production", TURNSTILE_SECRET_KEY |-> "",
       BACKEND_ACCESS_KEY |-> "k1", EMERGENCY_SHUTDOWN |-> ""],
      [NODE_ENV |-> "production", TURNSTILE_SECRET_KEY |-> "sec",
       BACKEND_ACCESS_KEY |-> "k1", EMERGENCY_SHUTDOWN |-> ""],
      DevEnv }

\* requests to an unprotected route: the limiter, bot filter and validation only
PlainRequests ==
    [headers : {H_a, H_b, H_c}, ua : {UA_browser}, path : {S_types},
     method : {"GET"}, contentType : {<<>>}, sid : {NoSession},
     captchaToken : {""}, apiKey : {""}]

\* requests of the pipeline: a health probe with a deny-listed user-agent and
\* calls of the analysis endpoint (one with a deny-listed user-agent, one
\* without a JSON content type, one without a session token, one without a
\* CAPTCHA token, one with a wrong API key, and for every session token one
\* with a CAPTCHA token and the right API key)
PipelineRequests ==
    [headers : {H_a}, ua : {UA_curl}, path : {S_health},
     method : {"GET"}, contentType : {<<>>}, sid : {NoSession},
     captchaToken : {""}, apiKey : {""}]
    \cup
    [headers : {H_a}, ua : {UA_curl}, path : {S_analyze},
     method : {"POST"}, contentType : {S_json}, sid : {"s1"},
     captchaToken : {"tok"}, apiKey : {"k1"}]
    \cup
    [headers : {H_a}, ua : {UA_browser}, path : {S_analyze},
     method : {"POST"}, contentType : {<<>>}, sid : {"s1"},
     captchaToken : {"tok"}, apiKey : {"k1"}]
    \cup
    [headers : {H_a}, ua : {UA_browser}, path : {S_analyze},
     method : {"POST"}, contentType : {S_json}, sid : {"s1", NoSession},
     captchaToken : {""}, apiKey : {"k1"}]
    \cup
    [headers : {H_a}, ua : {UA_browser}, path : {S_analyze},
     method : {"POST"}, contentType : {S_json}, sid : {"s1"},
     captchaToken : {"tok"}, apiKey : {"bad"}]
    \cup
    [headers : {H_a}, ua : {UA_browser}, path : {S_analyze},
     method : {"POST"}, contentType : {S_json}, sid : Sessions,
     captchaToken : {"tok"}, apiKey : {"k1"}]

\* requests to the edge: the analysis page from three identities, the same
\* with a deny-listed or absent user-agent, and two paths off the matcher
EdgeRequests ==
    [headers : {H_a, H_b, H_c}, ua : {UA_browser}, path : {P_analyze}]
    \cup [headers : {H_a}, ua : {UA_curl, UA_none}, path : {P_analyze}]
    \cup [headers : {H_a}, ua : {UA_browser}, path : {P_health, P_script}]

\* the backend limiter and its cleanup timer, three identity keys
InitLimiter == InitWith({DevEnv})
NextLimiter ==
    \/ Tick(TimeSteps)
    \/ \E r \in PlainRequests : sent < MaxSolo /\ Arrive(1, r)
    \/ CleanupTimer
SpecLimiter == InitLimiter /\ [][NextLimiter]_vars

\* the backend pipeline with requests in flight
Init == InitWith(BackendEnvs)
Next ==
    \/ \E s \in Slots, r \in PipelineRequests :
          sent < MaxPipeline /\ lowestIdle(Slots, s) /\ Arrive(s, r)
    \/ \E s \in Slots, verdict \in {"success", "failure", "throw"} : VerifyReturns(s, verdict)
    \/ \E s \in Slots, st \in {200, 500} : HandlerResponds(s, st)
    \/ \E s \in Slots : Finish(s)
    \/ \E s \in Slots : Abort(s)
    \/ \E s \in Slots : EndAborted(s)
    \/ SessionCleanupTimer
Spec == Init /\ [][Next]_vars

\* the pipeline where the handler answers and responses complete, while
\* nothing makes the verification service answer: captchaGuard awaits
\* node-fetch's fetch() without a timeout or an abort signal
SpecFair ==
    /\ Spec
    /\ WF_vars(\E s \in Slots, st \in {200, 500} : HandlerResponds(s, st))
    /\ WF_vars(\E s \in Slots : Finish(s))
    /\ WF_vars(\E s \in Slots : EndAborted(s))

\* the limiter and the bot filter of both implementations, one identity key
GuardRequests ==
    [headers : {H_a}, ua : {UA_browser, UA_curl}, path : {S_types},
     method : {"GET"}, contentType : {<<>>}, sid : {NoSession},
     captchaToken : {""}, apiKey : {""}]
EdgeGuardRequests ==
    [headers : {H_a}, ua : {UA_browser, UA_curl}, path : {P_analyze}]
InitGuards == InitWith({DevEnv})
NextGuards ==
    \/ Tick(TimeSteps)
    \/ \E r \in GuardRequests : Arrive(1, r)
    \/ \E r \in EdgeGuardRequests : EdgeRequest(r)
SpecGuards == InitGuards /\ [][NextGuards]_vars

\* the credential gate alone, in every environment: an absent key, the
\* configured key, a key that differs from it only in case, and another key
ApiKeys == {"", "k1", "K1", "bad"}
InitGate == InitWith(Envs)
NextGate == \E key \in ApiKeys : CheckKey(key)
SpecGate == InitGate /\ [][NextGate]_vars

\* the identity resolvers alone: x-forwarded-for absent, a single address, a
\* list, a list whose first element is empty or blank, an address between
\* blanks; x-real-ip, req.ip and the socket address present or absent
IdentityHeaders ==
    [xff : {<<>>, <<"1">>, <<"1", ",", " ", "9">>, <<",">>, <<" ", ",", "1">>,
            <<" ", "1", " ">>},
     realIp : {<<>>, <<"2">>}, ip : {<<>>, <<"3">>}, remoteAddress : {<<>>, <<"4">>}]
InitIdentity == InitWith({DevEnv})
NextIdentity == \E h \in IdentityHeaders : ResolveIdentity(h)
SpecIdentity == InitIdentity /\ [][NextIdentity]_vars

\* the bot filters, alone and inside requests that follow one another: no
\* user-agent, one of 9 and one of 10 characters, a browser, a client on both
\* deny lists, one on the backend list only, one on the edge list only, and
\* each of them in upper case; four of them are sent in requests
UA_short == <<"M","o","z","i","l","l","a","/","5">>
UA_ten == <<"M","o","z","i","l","l","a","/","5",".">>
UA_ruby == <<"R","u","b","y","/","3",".","2",".","0",".","1">>
UA_axios == <<"a","x","i","o","s","/","1",".","6",".","0">>
toUpperCase(str) ==
    [i \in 1..Len(str) |->
        IF \E j \in 1..Len(LowerCase) : LowerCase[j] = str[i]
        THEN UpperCase[CHOOSE j \in 1..Len(LowerCase) : LowerCase[j] = str[i]]
        ELSE str[i]]
BotUAs ==
    LET base == {UA_none, UA_short, UA_ten, UA_browser, UA_curl, UA_ruby, UA_axios}
    IN  base \cup {toUpperCase(ua) : ua \in base}
RequestUAs == {UA_browser, toUpperCase(UA_curl), UA_short, UA_axios}
BotRequests ==
    [headers : {H_a}, ua : RequestUAs, path : {S_types},
     method : {"GET"}, contentType : {<<>>}, sid : {NoSession},
     captchaToken : {""}, apiKey : {""}]
EdgeBotRequests == [headers : {H_a}, ua : RequestUAs, path : {P_analyze}]
InitBot == InitWith({DevEnv})
NextBot ==
    \/ Tick({1})
    \/ \E ua \in BotUAs : sent < MaxPipeline /\ ClassifyUA(ua)
    \/ \E r \in BotRequests : sent < MaxPipeline /\ Arrive(1, r)
    \/ \E r \in EdgeBotRequests : sent < MaxPipeline /\ EdgeRequest(r)
SpecBot == InitBot /\ [][NextBot]_vars

\* the three limiters side by side on requests of three keys, with the clock
\* moving inside a window and past its end
InitLimiters == InitWith({DevEnv})
NextLimiters ==
    \/ Tick(TimeSteps)
    \/ \E k \in {IP_a, IP_b, IP_c} : sent < MaxSolo /\ LimitAll(k)
SpecLimiters == InitLimiters /\ [][NextLimiters]_vars

\* limiters with and without the removal of expired entries: two keys at the
\* backend, whose store then stays within MAX_RATE_LIMIT_ENTRIES, and three
\* at the edge, whose map then exceeds the size cleanupRateLimitMap() acts on;
\* the two sides run in different processes and share nothing, so a behaviour
\* follows one of them
InitSweep == InitWith({DevEnv})
NextSweep ==
    \/ Tick(TimeSteps)
    \/ \E k \in {IP_a, IP_b} :
          sent < MaxPipeline /\ sweepState.plainMap = <<>> /\ LimitBackend(k)
    \/ \E k \in {IP_a, IP_b, IP_c} :
          sent < MaxPipeline /\ sweepState.plainStore = <<>> /\ LimitEdge(k)
    \/ SweepExpired
SpecSweep == InitSweep /\ [][NextSweep]_vars

\* the edge interceptor
InitEdge == InitWith({e \in Envs : e.NODE_ENV = "development"
                                   /\ e.TURNSTILE_SECRET_KEY = ""
                                   /\ e.BACKEND_ACCESS_KEY = ""})
NextEdge ==
    \/ Tick({RATE_LIMIT_WINDOW + 1})
    \/ \E r \in EdgeRequests : sent < MaxSolo /\ EdgeRequest(r)
SpecEdge == InitEdge /\ [][NextEdge]_vars

\* the edge interceptor and the health route with the kill switch on or off
KillRequests ==
    [headers : {H_a, H_b}, ua : {UA_browser}, path : {P_analyze, P_issue}]
    \cup [headers : {H_a}, ua : {UA_curl, UA_none}, path : {P_analyze}]
    \cup [headers : {H_a}, ua : {UA_browser}, path : {P_apiHealth}]
InitKill == InitWith({e \in Envs : e.NODE_ENV = "development"
                                   /\ e.TURNSTILE_SECRET_KEY = ""
                                   /\ e.BACKEND_ACCESS_KEY = ""})
NextKill ==
    \/ Tick({1})
    \/ \E r \in KillRequests : sent < MaxPipeline /\ EdgeRequest(r)
SpecKill == InitKill /\ [][NextKill]_vars

\* health probes at the backend and at the edge, from one identity, next to
\* requests of the same identity to other paths; /health is the only path of
\* EdgeHealthRequests that is off the matcher
HealthRequests ==
    [headers : {H_a}, ua : {UA_browser, UA_curl, UA_none}, path : {S_health},
     method : {"GET"}, contentType : {<<>>}, sid : {NoSession},
     captchaToken : {""}, apiKey : {""}]
    \cup
    [headers : {H_a}, ua : {UA_browser}, path : {S_types},
     method : {"GET"}, contentType : {<<>>}, sid : {NoSession},
     captchaToken : {""}, apiKey : {""}]
EdgeHealthRequests ==
    [headers : {H_a}, ua : {UA_browser, UA_curl}, path : {P_health}]
    \cup [headers : {H_a}, ua : {UA_browser}, path : {P_analyze}]
InitHealth == InitWith({DevEnv})
NextHealth ==
    \/ Tick({1})
    \/ \E r \in HealthRequests : sent < MaxSolo /\ Arrive(1, r)
    \/ \E r \in EdgeHealthRequests : sent < MaxSolo /\ EdgeRequest(r)
SpecHealth == InitHealth /\ [][NextHealth]_vars

----------------------------------------------------------------------------
(* Properties *)

\* the request that arrived last ran concurrencyGuard
reachedConcurrency ==
    /\ last.kind = "arrive"
    /\ last.path = S_analyze
    /\ last.reason \notin {"rate", "bot", "contentType"}

\* the request that arrived last was admitted by concurrencyGuard
admitted ==
    /\ reachedConcurrency
    /\ last.reason \notin {"missingSession", "concurrent", "capacity"}
    /\ \E s \in Slots : reqs[s].pc # "idle" /\ reqs[s].registered /\ reqs[s].sid = last.sid

\* C1: in every reachable state at most one request admitted by concurrencyGuard
\* with a given session token is between its admission and the completion of
\* its response, whatever the interleaving of arrivals, finish events and sweeps
C1_MutualExclusion ==
    \A s1, s2 \in Slots :
        (/\ s1 # s2
         /\ reqs[s1].pc # "idle" /\ reqs[s1].registered
         /\ reqs[s2].pc # "idle" /\ reqs[s2].registered)
        => reqs[s1].sid # reqs[s2].sid

\* a second request with the token of a request still in flight was turned away
C1_Witness ==
    /\ last.kind = "arrive" /\ last.reason = "concurrent"
    /\ \E s \in Slots : /\ reqs[s].pc \in {"verifying", "analyzing"}
                        /\ reqs[s].registered /\ reqs[s].sid = last.sid

\* C2: of the requests of one key inside the window opened by the key's first
\* request, the first N are allowed and the (N+1)-th is the first one denied
\* with 429 (backend: N = RATE_LIMIT_MAX_REQUESTS; edge: N = STRICT_RATE_LIMIT)
C2_FirstDenied ==
    /\ last.kind = "arrive" =>
          /\ last.nth <= RATE_LIMIT_MAX_REQUESTS => last.status # 429
          /\ last.nth > RATE_LIMIT_MAX_REQUESTS =>
                last.status = 429 /\ last.reason = "rate"
    /\ (edgeLast.kind = "request" /\ edgeLast.nth > 0) =>
          /\ edgeLast.nth <= STRICT_RATE_LIMIT => edgeLast.status # 429
          /\ edgeLast.nth > STRICT_RATE_LIMIT => edgeLast.status = 429

\* the (N+1)-th request of a key has just been denied on the backend, and the
\* (N+1)-th request of a key was the last one the edge answered
C2_Witness ==
    /\ last.kind = "arrive" /\ last.nth = RATE_LIMIT_MAX_REQUESTS + 1 /\ last.status = 429
    /\ edgeLast.kind = "request" /\ edgeLast.nth = STRICT_RATE_LIMIT + 1
    /\ edgeLast.status = 429

\* C3 (as stated): for every key, among its requests arriving in the W
\* milliseconds that follow an allowed request which created its entry, at most
\* RATE_LIMIT_MAX_REQUESTS are allowed, also across the FIFO capacity eviction
C3_MaxPerWindow ==
    \A k \in Keys : seen[k].allowedW <= RATE_LIMIT_MAX_REQUESTS

\* C3: for every key whose entry the FIFO capacity eviction has not removed
\* since the allowed request that created it, at most RATE_LIMIT_MAX_REQUESTS of
\* the key's requests arriving in the W milliseconds after that request are
\* allowed, whatever requests of other keys and sweeps are interleaved
C3_MaxPerWindowUnlessEvicted ==
    \A k \in Keys : ~seen[k].evicted => seen[k].allowedW <= RATE_LIMIT_MAX_REQUESTS

\* a key that kept its entry is at its maximum and has just been denied, after
\* the sweep evicted the entry of another key
C3_Witness ==
    \E k \in Keys :
        /\ ~seen[k].evicted /\ seen[k].allowedW = RATE_LIMIT_MAX_REQUESTS
        /\ last.kind = "arrive" /\ last.key = k /\ last.status = 429
        /\ \E k2 \in Keys \ {k} : seen[k2].evicted

\* C4 (as stated): a lease that concurrencyGuard recorded is removed when its
\* request's lifecycle ends, on every exit path: every token in activeSessions
\* belongs to a request that is still in flight
C4_LeaseReleased ==
    \A i \in 1..Len(activeSessions) :
        \E s \in Slots : /\ reqs[s].pc # "idle" /\ reqs[s].registered
                         /\ reqs[s].sid = activeSessions[i].key

\* C5: a request that reaches concurrencyGuard with the token of a request whose
\* response has not completed is denied with 429, and one whose token is not so
\* held (never used, or its holder's response completed by whatever path) is
\* admitted while the session map has room
C5_OneAdmission ==
    (reachedConcurrency /\ last.sid # NoSession) =>
        /\ last.held => (last.status = 429 /\ last.reason = "concurrent")
        /\ (~last.held /\ last.sizeBefore < MAX_ACTIVE_SESSIONS) => admitted

\* a request is admitted with a token whose earlier holder completed its response
C5_Witness ==
    admitted /\ last.sid \in released /\ ~last.held

\* C6: immediately after a run of the cleanup sweep the store holds at most
\* MAX_RATE_LIMIT_ENTRIES entries
C6_StoreBounded ==
    last.kind = "cleanup" => Len(rateLimitStore) <= MAX_RATE_LIMIT_ENTRIES

\* the sweep found more live entries than the capacity and evicted one
C6_Witness ==
    /\ last.kind = "cleanup" /\ last.sizeBefore > MAX_RATE_LIMIT_ENTRIES
    /\ Len(rateLimitStore) = MAX_RATE_LIMIT_ENTRIES
    /\ \E k \in Keys : seen[k].evicted /\ ~mapHas(rateLimitStore, k)

\* C7 (as stated): after cleanupRateLimitMap ran on a map above its threshold
\* the map is back at or under the threshold
C7_EdgeStoreBounded ==
    edgeLast.cleanupRan => edgeLast.sizeAfterCleanup <= EDGE_CLEANUP_THRESHOLD

\* the backend half of C8: over the limit and deny-listed is answered 429
backendRateFirst ==
    (last.kind = "arrive" /\ last.uaListed /\ last.nth > RATE_LIMIT_MAX_REQUESTS)
        => (last.status = 429 /\ last.reason = "rate")

C9_NoLaterEffects ==
    [][ (/\ last'.kind = "arrive"
         /\ \/ last'.nth > RATE_LIMIT_MAX_REQUESTS
            \/ (last'.uaListed /\ last'.path # S_health)
            \/ last'.reason \in {"rate", "bot", "missingSession", "concurrent", "capacity"})
        => (activeSessions' = activeSessions /\ reqs' = reqs) ]_vars

\* a rate-limited call of the analysis endpoint that carried a free session
\* token and a CAPTCHA token
C9_Witness ==
    /\ last.kind = "arrive" /\ last.path = S_analyze /\ last.status = 429
    /\ last.reason = "rate" /\ last.nth > RATE_LIMIT_MAX_REQUESTS
    /\ last.sid # NoSession /\ last.hasToken /\ ~mapHas(activeSessions, last.sid)

\* C10: in production without a verification secret every request that got
\* past concurrencyGuard has been answered 503 by captchaGuard: none waits for
\* the verification service, none went on to the next guard
C10_FailClosed ==
    (env.NODE_ENV = "production" /\ env.TURNSTILE_SECRET_KEY = "") =>
        /\ \A s \in Slots : reqs[s].pc # "idle" =>
              (reqs[s].pc = "responded" /\ reqs[s].status = 503)
        /\ admitted => (last.status = 503 /\ last.reason = "misconfigured")

\* such a request without a CAPTCHA token has been answered 503
C10_Witness ==
    /\ env.NODE_ENV = "production" /\ env.TURNSTILE_SECRET_KEY = ""
    /\ admitted /\ ~last.hasToken /\ last.status = 503

\* a request in flight has gone past captchaGuard
passedCaptcha(rq) == rq.pc = "analyzing" \/ rq.status = 401

\* C11: with a verification secret configured a request goes past captchaGuard
\* only on a success verdict of the verification service: no request passes at
\* its arrival, a non-success verdict ends in 403, a thrown or failed
\* verification call ends in 500, and neither lets the request on
C11_PassOnlyOnSuccess ==
    [][ \A s \in Slots :
          /\ (env.TURNSTILE_SECRET_KEY # "" /\ reqs[s].pc = "idle" /\ reqs'[s].pc # "idle")
                => ~passedCaptcha(reqs'[s])
          /\ \A verdict \in {"success", "failure", "throw"} :
                VerifyReturns(s, verdict) =>
                    /\ passedCaptcha(reqs'[s]) => verdict = "success"
                    /\ verdict = "failure" =>
                          (reqs'[s].pc = "responded" /\ reqs'[s].status = 403)
                    /\ verdict = "throw" =>
                          (reqs'[s].pc = "responded" /\ reqs'[s].status = 500) ]_vars

\* the verification service refused a token and the request was answered 403
\* (no other guard past concurrencyGuard answers 403), while another request
\* has gone past captchaGuard
C11_Witness ==
    /\ env.TURNSTILE_SECRET_KEY # ""
    /\ \E s \in Slots : reqs[s].pc = "responded" /\ reqs[s].status = 403
    /\ \E s \in Slots : passedCaptcha(reqs[s])

\* C12 (as stated): every request that enters the verification call eventually
\* gets a decision, even if the verification service never answers
C12_VerificationDecides ==
    \A s \in Slots : (reqs[s].pc = "verifying") ~> (reqs[s].pc # "verifying")

\* the request in flight that arrived last
lastAdmitted(s) == reqs[s].pc # "idle" /\ reqs[s].registered /\ reqs[s].sid = last.sid

\* C13: with a verification secret configured, a request that reaches
\* captchaGuard without a captcha token is answered 400 at once and does not
\* wait for the verification service
C13_CaptchaRequired ==
    (env.TURNSTILE_SECRET_KEY # "" /\ admitted /\ ~last.hasToken) =>
        /\ last.status = 400 /\ last.reason = "captchaRequired"
        /\ \A s \in Slots : lastAdmitted(s) =>
              (reqs[s].pc = "responded" /\ reqs[s].status = 400)

\* such a request has been answered 400 while holding its lease
C13_Witness ==
    /\ env.TURNSTILE_SECRET_KEY # "" /\ admitted /\ ~last.hasToken
    /\ last.status = 400 /\ mapHas(activeSessions, last.sid)

\* C14: without a verification secret and outside production every request
\* that reaches captchaGuard goes on to the next guard, with or without a
\* captcha token, and none waits for the verification service
C14_DevSkip ==
    (env.TURNSTILE_SECRET_KEY = "" /\ env.NODE_ENV # "production") =>
        /\ \A s \in Slots : reqs[s].pc # "verifying"
        /\ admitted => /\ last.reason \notin {"misconfigured", "captchaRequired"}
                       /\ \A s \in Slots : lastAdmitted(s) => passedCaptcha(reqs[s])

\* a request without a captcha token has gone on to the handler
C14_Witness ==
    /\ env.TURNSTILE_SECRET_KEY = "" /\ env.NODE_ENV # "production"
    /\ admitted /\ ~last.hasToken
    /\ \E s \in Slots : lastAdmitted(s) /\ reqs[s].pc = "analyzing"

\* the answer st of a gate to the key checked last is the one C15 describes
gateAsClaimed(st) ==
    IF env.BACKEND_ACCESS_KEY = "" THEN st = 0
    ELSE (st = 0 <=> gate.key = env.BACKEND_ACCESS_KEY) /\ st \in {0, 401}

\* C15 (as stated): with no expected key every request is allowed; with one, a
\* request is allowed iff its x-api-key equals it, else denied 401, in
\* apiKeyGuard of securitymiddleware.ts and in the part_005 variant
C15_CredentialGate ==
    gate.checked => (gateAsClaimed(gate.status) /\ gateAsClaimed(gate.part005))

\* C16: a request of a key arriving more than W after the request that opened
\* the key's current window is not denied by the limiter, and the key's entry
\* after it has count 1 and resetTime = now + W, at the backend and at the edge
C16_WindowRollover ==
    [][ /\ (seen' # seen /\ last'.kind = "arrive" /\ last'.rolled) =>
              /\ last'.status # 429
              /\ mapHas(rateLimitStore', last'.key)
              /\ mapGet(rateLimitStore', last'.key).count = 1
              /\ mapGet(rateLimitStore', last'.key).resetTime = now + RATE_LIMIT_WINDOW_MS
        /\ (edgeSeen' # edgeSeen /\ edgeLast'.rolled) =>
              /\ edgeLast'.status = 0
              /\ mapHas(rateLimitMap', edgeLast'.key)
              /\ mapGet(rateLimitMap', edgeLast'.key).count = 1
              /\ mapGet(rateLimitMap', edgeLast'.key).resetTime = now + RATE_LIMIT_WINDOW
      ]_vars

\* a backend request arriving more than W after the one that opened its key's
\* window was served and left count 1, and so did a request at the edge
C16_Witness ==
    /\ last.kind = "arrive" /\ last.rolled /\ last.status = 200
    /\ mapGet(rateLimitStore, last.key).count = 1
    /\ edgeLast.rolled /\ edgeLast.status = 0
    /\ mapGet(rateLimitMap, edgeLast.key).count = 1

\* the number a client reads from a string of decimal digits
RECURSIVE decimalValue(_)
decimalValue(str) ==
    IF str = <<>> THEN 0
    ELSE LET d == CHOOSE i \in 0..9 : decimalDigits[i + 1] = str[Len(str)]
         IN  10 * decimalValue(SubSeq(str, 1, Len(str) - 1)) + d

\* the backend limiter, resp. the edge limiter, denies in this step
backendDenial == seen' # seen /\ last'.kind = "arrive" /\ last'.reason = "rate"
edgeDenial == edgeSeen' # edgeSeen /\ edgeLast'.reason = "rate"

\* a denial reports ceil of the remaining milliseconds in seconds, in the
\* Retry-After header as in the JSON field
denialReports(lst, resetTime) ==
    /\ lst.status = 429
    /\ lst.retryAfter = ceilDiv(resetTime - now, MS_PER_SECOND)
    /\ lst.header # <<>> /\ decimalValue(lst.header) = lst.retryAfter

\* C17 (as stated): every denial by the limiter reports
\* retryAfter = ceil((resetTime - now)/1000) >= 1, also at now = resetTime, and
\* the Retry-After header carries the same value
C17_RetryAfter ==
    [][ /\ backendDenial =>
              /\ denialReports(last', mapGet(rateLimitStore', last'.key).resetTime)
              /\ last'.retryAfter >= 1
        /\ edgeDenial =>
              /\ denialReports(edgeLast', mapGet(rateLimitMap', edgeLast'.key).resetTime)
              /\ edgeLast'.retryAfter >= 1
      ]_vars

\* C17: every denial by the limiter reports
\* retryAfter = ceil((resetTime - now)/1000) in the header and in the body; the
\* value is >= 1 when now < resetTime and 0 for a denial at now = resetTime
C17_RetryAfterPositiveRemaining ==
    [][ /\ backendDenial =>
              LET resetTime == mapGet(rateLimitStore', last'.key).resetTime
              IN  /\ denialReports(last', resetTime)
                  /\ now <= resetTime
                  /\ now < resetTime => last'.retryAfter >= 1
                  /\ now = resetTime => last'.retryAfter = 0
        /\ edgeDenial =>
              LET resetTime == mapGet(rateLimitMap', edgeLast'.key).resetTime
              IN  /\ denialReports(edgeLast', resetTime)
                  /\ now <= resetTime
                  /\ now < resetTime => edgeLast'.retryAfter >= 1
                  /\ now = resetTime => edgeLast'.retryAfter = 0
      ]_vars

\* the backend limiter denied a request arriving at exactly resetTime with
\* Retry-After: 0, and the edge limiter denied one with Retry-After: 60
C17_Witness ==
    /\ last.kind = "arrive" /\ last.reason = "rate"
    /\ now = mapGet(rateLimitStore, last.key).resetTime
    /\ last.retryAfter = 0 /\ last.header = <<"0">>
    /\ edgeLast.reason = "rate" /\ edgeLast.retryAfter = 60
    /\ edgeLast.header = <<"6", "0">>

\* the entry of key k, or <<>> when the store has none
entryOf(store, k) == IF mapHas(store, k) THEN mapGet(store, k) ELSE <<>>

\* C18: a request of key A leaves the entry (count and resetTime) of every
\* other key as it was, and the first request of a key that has sent none is
\* not denied by the limiter, whatever the other keys have sent
C18_KeyIsolation ==
    [][ (seen' # seen /\ last'.kind = "arrive") =>
            /\ \A k \in Keys \ {last'.key} :
                  entryOf(rateLimitStore', k) = entryOf(rateLimitStore, k)
            /\ seen[last'.key] = NoSeen => last'.status = 200
      ]_vars

\* key A has sent N+1 requests, the last one denied, and the first request of
\* another key has just been served
C18_Witness ==
    /\ last.kind = "arrive" /\ last.status = 200 /\ seen[last.key].n = 1
    /\ seen[last.key].wn = 1
    /\ \E a \in Keys \ {last.key} :
          /\ seen[a].n = RATE_LIMIT_MAX_REQUESTS + 1
          /\ seen[a].allowedE = RATE_LIMIT_MAX_REQUESTS
          /\ entryOf(rateLimitStore, a).count = RATE_LIMIT_MAX_REQUESTS + 1

\* C19: with EMERGENCY_SHUTDOWN = 'true' the interceptor answers every request
\* on its matcher with 503 (none gets the bot filter's 403 or the limiter's
\* 429), rateLimitMap is left as it was, and the health route answers 503 too
C19_KillSwitchFirst ==
    [][ (env.EMERGENCY_SHUTDOWN = "true" /\ sent' # sent) =>
            /\ edgeLast'.matched =>
                  (edgeLast'.status = 503 /\ edgeLast'.reason = "maintenance")
            /\ rateLimitMap' = rateLimitMap /\ rateLimitMap' = <<>>
            /\ edgeSeen' = edgeSeen
            /\ (~edgeLast'.matched /\ edgeLast'.status # 0) => edgeLast'.status = 503
      ]_vars

\* with the switch on, a request with a deny-listed user-agent got 503 after
\* other requests, and the map is empty
C19_Witness ==
    /\ env.EMERGENCY_SHUTDOWN = "true" /\ sent >= 3
    /\ edgeLast.matched /\ edgeLast.uaListed /\ edgeLast.status = 503
    /\ rateLimitMap = <<>>

\* C20: with the kill switch off a request to the health-check path is denied
\* by no guard and consumes no rate-limit quota, whatever its user-agent and
\* whatever the same identity has sent before, at the backend
\* (securityMiddleware) and at the edge
C20_HealthExempt ==
    [][ /\ (seen' # seen /\ last'.kind = "arrive" /\ last'.path = S_health) =>
              (last'.status = 200 /\ rateLimitStore' = rateLimitStore)
        /\ (edgeLast' # edgeLast /\ ~edgeLast'.matched) =>
              (edgeLast'.status = 0 /\ rateLimitMap' = rateLimitMap)
      ]_vars

\* C21: concurrencyGuard answers 503 to a request with a token that holds no
\* lease when activeSessions has MAX_ACTIVE_SESSIONS entries or more, and
\* activeSessions never holds more than MAX_ACTIVE_SESSIONS entries
C21_CapacityCeiling ==
    /\ Len(activeSessions) <= MAX_ACTIVE_SESSIONS
    /\ (reachedConcurrency /\ last.sid # NoSession /\ ~last.held
           /\ last.sizeBefore >= MAX_ACTIVE_SESSIONS)
          => (last.status = 503 /\ last.reason = "capacity"
              /\ ~mapHas(activeSessions, last.sid))

\* a request with a fresh token met a full lease table and was answered 503
C21_Witness ==
    /\ reachedConcurrency /\ last.sid # NoSession /\ ~last.held
    /\ last.sizeBefore = MAX_ACTIVE_SESSIONS
    /\ last.status = 503 /\ last.reason = "capacity"
    /\ Len(activeSessions) = MAX_ACTIVE_SESSIONS

\* the request that arrives in this step is denied by concurrencyGuard
concurrencyDenial ==
    /\ sent' # sent /\ last'.kind = "arrive"
    /\ last'.reason \in {"missingSession", "concurrent", "capacity"}

\* C22: a request denied by concurrencyGuard (400, 429, 503) leaves
\* activeSessions as it was and has no 'finish' listener pending, and the
\* completion of a response never removes the lease of another request in
\* flight
C22_DenialLeavesLeases ==
    [][ /\ concurrencyDenial =>
              /\ last'.status \in {400, 429, 503}
              /\ activeSessions' = activeSessions
              /\ reqs' = reqs
        /\ \A s, s2 \in Slots :
              (/\ s # s2
               /\ reqs[s].pc = "responded" /\ reqs'[s].pc = "idle"
               /\ reqs[s2].pc # "idle" /\ reqs[s2].registered /\ reqs[s2].status # 429)
              => mapHas(activeSessions', reqs[s2].sid)
      ]_vars

\* a duplicate of a request in flight was denied with 429 while the lease
\* table was full, and the lease of the request in flight is still recorded
C22_Witness ==
    /\ last.kind = "arrive" /\ last.reason = "concurrent" /\ last.status = 429
    /\ last.sizeBefore = MAX_ACTIVE_SESSIONS
    /\ Len(activeSessions) = MAX_ACTIVE_SESSIONS
    /\ mapHas(activeSessions, last.sid)
    /\ \E s \in Slots : reqs[s].pc # "idle" /\ reqs[s].registered /\ reqs[s].sid = last.sid

\* the request on connection s is suspended in the verification call or in
\* the analysis
suspended(s) == reqs[s].pc \in {"verifying", "analyzing"}

\* C23: a request that reaches concurrencyGuard with a token holding no lease,
\* while requests with other tokens are suspended and activeSessions is below
\* MAX_ACTIVE_SESSIONS, is admitted in the step of its arrival, runs on to its
\* own await or response in that step, and leaves the suspended requests as
\* they were
C23_SessionsIndependent ==
    [][ (/\ sent' # sent /\ reachedConcurrency' /\ last'.sid # NoSession
         /\ ~mapHas(activeSessions, last'.sid)
         /\ Len(activeSessions) < MAX_ACTIVE_SESSIONS
         /\ \E s \in Slots : suspended(s) /\ reqs[s].sid # last'.sid)
        => /\ last'.reason \notin {"concurrent", "capacity"}
           /\ mapHas(activeSessions', last'.sid)
           /\ \E s \in Slots :
                 /\ reqs[s].pc = "idle"
                 /\ reqs'[s].pc \in {"verifying", "analyzing", "responded"}
                 /\ reqs'[s].registered /\ reqs'[s].sid = last'.sid
           /\ \A s \in Slots : suspended(s) => reqs'[s] = reqs[s]
      ]_vars

\* a request was admitted and entered the verification call while a request
\* with another token was still suspended in its own verification call
C23_Witness ==
    /\ admitted
    /\ \E s1, s2 \in Slots :
          /\ s1 # s2
          /\ reqs[s1].pc = "verifying" /\ reqs[s1].sid # last.sid
          /\ lastAdmitted(s2) /\ reqs[s2].pc = "verifying"

\* the first comma-separated value of a header value, blanks at its ends removed
RECURSIVE strip(_)
strip(str) ==
    IF str = <<>> THEN str
    ELSE IF str[1] = " " THEN strip(SubSeq(str, 2, Len(str)))
    ELSE IF str[Len(str)] = " " THEN strip(SubSeq(str, 1, Len(str) - 1))
    ELSE str
firstValue(str) ==
    LET commas == {i \in 1..Len(str) : str[i] = ","}
        stop == IF commas = {} THEN Len(str) + 1
                ELSE CHOOSE i \in commas : \A j \in commas : i <= j
    IN  strip(SubSeq(str, 1, stop - 1))

\* the identity C24 describes for headers h with transport address peer
identityAsClaimed(h, peer) ==
    IF h.xff # <<>> THEN firstValue(h.xff)
    ELSE IF h.realIp # <<>> THEN h.realIp
    ELSE IF peer # <<>> THEN peer
    ELSE S_unknown

\* C24 (as stated): the resolver returns the first comma-separated value of
\* x-forwarded-for if the header is present, else x-real-ip, else the transport
\* peer address, else 'unknown', and never the empty string, at the backend
\* and at the edge
C24_IdentityResolver ==
    call.fn = "getClientIP" =>
        LET h == call.headers
            peer == IF h.ip # <<>> THEN h.ip ELSE h.remoteAddress
        IN  /\ call.backend = identityAsClaimed(h, peer)
            /\ call.edge = identityAsClaimed(h, <<>>)
            /\ call.backend # <<>>
            /\ call.edge # <<>>

\* two characters are the same letter, in whatever case
sameLetter(a, b) ==
    \/ a = b
    \/ a \in DOMAIN lowerOf /\ lowerOf[a] = b
    \/ b \in DOMAIN lowerOf /\ lowerOf[b] = a

\* the verdict C25 describes for user-agent ua and a deny list
blockedAsClaimed(ua, denyList) ==
    \/ ua = <<>>
    \/ Len(ua) < MIN_UA_LENGTH
    \/ \E pat \in denyList : \E i \in 1..(Len(ua) - Len(pat) + 1) :
          \A j \in 1..Len(pat) : sameLetter(ua[i + j - 1], pat[j])

\* C25: on a path that is not exempt a user-agent is answered 403 by the bot
\* filter iff it is absent, shorter than 10 characters, or contains a deny-list
\* entry in whatever letter case; the verdict is the same when the filter is
\* called on its own and inside any request, whatever was sent before
C25_BotClassifier ==
    [][ /\ call'.fn = "botGuard" =>
              /\ ~call'.backend <=> blockedAsClaimed(call'.ua, BOT_PATTERNS)
              /\ ~call'.edge <=> blockedAsClaimed(call'.ua, botPatterns)
        /\ (seen' # seen /\ last'.reason # "rate") =>
              \A r \in BotRequests :
                  Arrive(1, r) =>
                      (last'.status = 403 <=> blockedAsClaimed(r.ua, BOT_PATTERNS))
        /\ (edgeLast' # edgeLast \/ rateLimitMap' # rateLimitMap) =>
              \A r \in EdgeBotRequests :
                  EdgeRequest(r) =>
                      (edgeLast'.status = 403 <=> blockedAsClaimed(r.ua, botPatterns))
      ]_vars

\* an upper-case user-agent of a deny-listed client was blocked by both
\* filters, after a backend request answered 403 and an edge request let
\* through
C25_Witness ==
    /\ call.fn = "botGuard" /\ call.ua = toUpperCase(UA_curl)
    /\ ~call.backend /\ ~call.edge
    /\ last.kind = "arrive" /\ last.status = 403
    /\ edgeLast.kind = "request" /\ edgeLast.status = 0

\* the entries of the store that have not expired at the time of the sweep
liveEntries == SelectSeq(rateLimitStore, LAMBDA e : ~(now > e.resetTime))

\* the sweep of this step finds more live entries than the capacity
sweepOverflows ==
    /\ last'.kind = "cleanup"
    /\ Len(liveEntries) > MAX_RATE_LIMIT_ENTRIES

\* the sweep of this step removes the i-th live entry
sweptOut(i) == ~mapHas(rateLimitStore', liveEntries[i].key)

\* C26 (as stated): a sweep that finds the store above MAX_RATE_LIMIT_ENTRIES
\* after removing expired entries removes exactly size - MAX_RATE_LIMIT_ENTRIES
\* entries, and no removed entry has a later window start than a surviving
\* one, also for keys whose entry was re-created after an earlier window expired
C26_FifoByWindowStart ==
    [][ sweepOverflows =>
            /\ Len(rateLimitStore') = MAX_RATE_LIMIT_ENTRIES
            /\ \A i, j \in 1..Len(liveEntries) :
                  (sweptOut(i) /\ ~sweptOut(j)) =>
                      liveEntries[i].resetTime <= liveEntries[j].resetTime
      ]_vars

\* C27: a request arriving inside its key's current window, allowed or denied,
\* leaves the entry's resetTime at the opener's arrival time + W and adds one
\* to its count; the first request after that resetTime is not denied by the
\* limiter, however many requests were denied before (backend and edge)
C27_WindowAnchored ==
    [][ /\ (seen' # seen /\ last'.kind = "arrive") =>
              LET k == last'.key
              IN  /\ (seen[k].opened >= 0 /\ ~last'.rolled) =>
                        /\ mapHas(rateLimitStore, k) /\ mapHas(rateLimitStore', k)
                        /\ mapGet(rateLimitStore', k).resetTime
                              = mapGet(rateLimitStore, k).resetTime
                        /\ mapGet(rateLimitStore', k).resetTime
                              = seen[k].opened + RATE_LIMIT_WINDOW_MS
                        /\ mapGet(rateLimitStore', k).count
                              = mapGet(rateLimitStore, k).count + 1
                  /\ last'.rolled => last'.status # 429
        /\ edgeSeen' # edgeSeen =>
              LET k == edgeLast'.key
              IN  /\ (edgeSeen[k].opened >= 0 /\ ~edgeLast'.rolled) =>
                        /\ mapHas(rateLimitMap, k) /\ mapHas(rateLimitMap', k)
                        /\ mapGet(rateLimitMap', k).resetTime
                              = mapGet(rateLimitMap, k).resetTime
                        /\ mapGet(rateLimitMap', k).resetTime
                              = edgeSeen[k].opened + RATE_LIMIT_WINDOW
                        /\ mapGet(rateLimitMap', k).count
                              = mapGet(rateLimitMap, k).count + 1
                  /\ edgeLast'.rolled => edgeLast'.status # 429
      ]_vars

\* a key was denied a second time, later than its window opened, and its
\* entry still ends at the opener's arrival time + W; the edge entry of a key
\* that sent a second request does too
C27_Witness ==
    /\ last.kind = "arrive" /\ last.status = 429
    /\ seen[last.key].n = RATE_LIMIT_MAX_REQUESTS + 2
    /\ now > seen[last.key].opened
    /\ mapGet(rateLimitStore, last.key).resetTime
          = seen[last.key].opened + RATE_LIMIT_WINDOW_MS
    /\ edgeLast.kind = "request" /\ edgeLast.nth = 2
    /\ mapGet(rateLimitMap, edgeLast.key).resetTime
          = edgeSeen[edgeLast.key].opened + RATE_LIMIT_WINDOW

\* what a limiter with quota maxRequests answers when its entry for the key
\* is e after the request, at time t
answerOf(e, maxRequests, t) ==
    IF e.count > maxRequests
    THEN [allowed |-> FALSE, retryAfter |-> ceilDiv(e.resetTime - t, MS_PER_SECOND)]
    ELSE [allowed |-> TRUE, retryAfter |-> 0]

\* C28: fed the same timed sequence of keys on maps nothing is evicted from,
\* rateLimitGuard, checkRateLimit and the limiter of middleware hold the same
\* count and the same window end for the key of every request, each answers
\* from that entry and its own quota in the same way, and any two of them
\* whose window and quota are equal give the same decision and retryAfter
C28_OneLimiter ==
    call.fn = "limiters" =>
        LET k == call.key
            eb == mapGet(call.store, k)
            ec == mapGet(call.checkMap, k)
            ei == mapGet(call.inlineMap, k)
        IN  /\ mapHas(call.store, k) /\ mapHas(call.checkMap, k)
            /\ mapHas(call.inlineMap, k)
            /\ RATE_LIMIT_WINDOW_MS = RATE_LIMIT_WINDOW
            /\ eb.count = ec.count /\ ec.count = ei.count
            /\ eb.resetTime = ec.resetTime /\ ec.resetTime = ei.resetTime
            /\ call.backend = answerOf(eb, RATE_LIMIT_MAX_REQUESTS, call.at)
            /\ call.check = answerOf(ec, RATE_LIMIT_MAX, call.at)
            /\ call.inline = answerOf(ei, STRICT_RATE_LIMIT, call.at)
            /\ RATE_LIMIT_MAX = STRICT_RATE_LIMIT => call.check = call.inline
            /\ RATE_LIMIT_MAX_REQUESTS = RATE_LIMIT_MAX => call.backend = call.check
            /\ RATE_LIMIT_MAX_REQUESTS = STRICT_RATE_LIMIT
                  => call.backend = call.inline

\* a request later than the start of its window is denied by all three with
\* the same retryAfter, after another key's entry has been written
C28_Witness ==
    /\ call.fn = "limiters"
    /\ ~call.backend.allowed /\ ~call.check.allowed /\ ~call.inline.allowed
    /\ call.backend.retryAfter = call.check.retryAfter
    /\ call.check.retryAfter = call.inline.retryAfter
    /\ call.backend.retryAfter > 0
    /\ call.at > mapGet(call.store, call.key).resetTime - RATE_LIMIT_WINDOW_MS
    /\ Len(call.store) > 1

\* the request in slot s is in flight and holds the lease of its token
holdsLease(sessions, s) ==
    /\ reqs[s].pc # "idle" /\ reqs[s].registered
    /\ mapHas(sessions, reqs[s].sid)

\* C29: activeSessions never holds more than MAX_ACTIVE_SESSIONS entries, so
\* the overflow branch of the session sweep is never taken: a run of the sweep
\* leaves the map as it found it, and every request in flight that held its
\* lease before the sweep holds it after
C29_SweepKeepsLeases ==
    [][ /\ Len(activeSessions) <= MAX_ACTIVE_SESSIONS
        /\ Len(activeSessions') <= MAX_ACTIVE_SESSIONS
        /\ SessionCleanupTimer =>
              /\ activeSessions' = activeSessions
              /\ \A s \in Slots :
                    holdsLease(activeSessions, s) => holdsLease(activeSessions', s)
      ]_vars

\* the sweep has run on a full map while a request was suspended, and the
\* request's lease is still there
C29_Witness ==
    /\ last.kind = "sessionCleanup"
    /\ last.sizeBefore = MAX_ACTIVE_SESSIONS
    /\ Len(activeSessions) = MAX_ACTIVE_SESSIONS
    /\ \E s \in Slots : suspended(s) /\ holdsLease(activeSessions, s)

\* C30: a limiter whose expired entries are removed between requests gives
\* every request the decision and the retryAfter of a limiter, fed the same
\* requests at the same times, from whose map nothing is ever removed
C30_SweepTransparent ==
    (call.fn = "sweep" /\ call.side \in {"backend", "edge"}) =>
        /\ call.swept = call.unswept
        /\ LET live == IF call.side = "backend" THEN call.store ELSE call.map
               kept == IF call.side = "backend" THEN call.plainStore
                       ELSE call.plainMap
           IN  /\ mapHas(live, call.key) /\ mapHas(kept, call.key)
               /\ mapGet(live, call.key) = mapGet(kept, call.key)

\* a backend request, or an edge request, was decided after the removal of
\* its key's expired entry, which the other copy still held
sweptAway(side) ==
    /\ call.fn = "sweep" /\ call.side = side /\ call.gone
    /\ call.swept.allowed /\ call.unswept.allowed
C30_Witness ==
    \/ /\ sweptAway("backend")
       /\ Len(call.plainStore) > Len(call.store)
    \/ /\ sweptAway("edge")
       /\ Len(call.plainMap) > Len(call.map)

====
